---- MODULE Spec2Model ----
(***************************************************************************)
(* Model of the connors-screener screening pipeline: the StockData record, *)
(* the elephant-bars post-filter, the TradingView equities / crypto and    *)
(* Finviz provider adapters, and ScreenerService.run_screening.            *)
(*                                                                         *)
(* Python values are tagged records (see None, Num, Str, Lst) so that a    *)
(* cell of an API response can be null, a number, a string or a list.      *)
(* Dictionaries are functions from key strings to values.  Diagnostic     *)
(* printing and logging are not modelled.                                  *)
(***************************************************************************)
EXTENDS FiniteSets, Integers, Sequences, TLC

VARIABLES
    pc,            \* "idle": no call in progress; "returned": a call has finished
    call,          \* the operation last invoked and its arguments
    ret,           \* its outcome: a returned value or a raised error
    http,          \* the HTTP requests issued by that operation, in order
    trace,         \* what run_screening did on the way: scans, lookups, ...
    post_filters,  \* screening.post_filters._post_filters: name -> predicate
    screening_configs, \* the registry's configurations: <<provider, name>> -> config
    manager,           \* a ScreeningConfigManager: its market table and alias map
    context_printed,   \* post_filters.elephant_bars._context_printed
    threads            \* concurrent registry lookups: each thread's position

vars ==
    <<pc, call, ret, http, trace, post_filters, screening_configs, manager,
      context_printed, threads>>

(***************************************************************************)
(* Python values                                                           *)
(***************************************************************************)
None == [t |-> "null", n |-> 0, s |-> "", l |-> <<>>]
Num(x) == [t |-> "num", n |-> x, s |-> "", l |-> <<>>]
Str(x) == [t |-> "str", n |-> 0, s |-> x, l |-> <<>>]
Lst(items) == [t |-> "list", n |-> 0, s |-> "", l |-> items]
Bool(b) == [t |-> "bool", n |-> IF b THEN 1 ELSE 0, s |-> "", l |-> <<>>]

is_None(v) == v.t = "null"

EmptyDict == [k \in {} |-> None]

\* dict.get(key, default)
dict_get(d, key, default) == IF key \in DOMAIN d THEN d[key] ELSE default

\* {**a, **b} and a.update(b): the entries of b win on shared keys
dict_update(a, b) ==
    [k \in DOMAIN a \cup DOMAIN b |-> IF k \in DOMAIN b THEN b[k] ELSE a[k]]

Abs(x) == IF x < 0 THEN -x ELSE x

(***************************************************************************)
(* core/screener.py: StockData                                             *)
(***************************************************************************)
core_fields ==
    {"symbol", "name", "price", "volume", "change", "market_cap",
     "sector", "exchange", "currency"}

\* The dataclass constructor followed by __post_init__: every field but
\* symbol has its None replaced by the field's default.
StockData(symbol, name, price, volume, change, market_cap, sector, exchange, currency, raw_data) ==
    [symbol     |-> symbol,
     name       |-> IF is_None(name) THEN Str("") ELSE name,
     price      |-> IF is_None(price) THEN Num(0) ELSE price,
     volume     |-> IF is_None(volume) THEN Num(0) ELSE volume,
     change     |-> IF is_None(change) THEN Num(0) ELSE change,
     market_cap |-> IF is_None(market_cap) THEN Num(0) ELSE market_cap,
     sector     |-> IF is_None(sector) THEN Str("") ELSE sector,
     exchange   |-> IF is_None(exchange) THEN Str("") ELSE exchange,
     currency   |-> IF is_None(currency) THEN Str("") ELSE currency,
     raw_data   |-> IF raw_data = None THEN EmptyDict ELSE raw_data]

\* get_field looking in raw_data before the core fields
get_field_raw_first(stock, field_name) ==
    IF field_name \in DOMAIN stock.raw_data
    THEN stock.raw_data[field_name]
    ELSE IF field_name \in core_fields THEN stock[field_name] ELSE None

\* getattr(self, field_name, None) for a core name, else raw_data.get when
\* raw_data is not empty, else None
get_field(stock, field_name) ==
    IF field_name \in core_fields
    THEN stock[field_name]
    ELSE IF DOMAIN stock.raw_data # {}
         THEN dict_get(stock.raw_data, field_name, None)
         ELSE None

(***************************************************************************)
(* screening/post_filters/elephant_bars.py                                 *)
(*                                                                         *)
(* The three context factors are carried in tenths (2.5 is 25), the record *)
(* values in whole units; every float comparison of the source is made     *)
(* exactly, after multiplying both sides by the positive denominators.     *)
(***************************************************************************)
Tenths == 10
DefaultAtrFactor == 25
DefaultVolumeFactor == 20
DefaultCandleBodyPct == 800

elephant_bars_filter_ge(stock, context) ==
    LET open_price  == get_field(stock, "open")
        high        == get_field(stock, "high")
        low         == get_field(stock, "low")
        close_price == stock.price
        volume      == stock.volume
        atr         == get_field(stock, "ATR")
        avg_volume  == get_field(stock, "average_volume_30d_calc")
        required    == <<open_price, high, low, close_price, volume, atr,
                         avg_volume>>
        atr_factor      == dict_get(context, "atr_factor", DefaultAtrFactor)
        volume_factor   == dict_get(context, "volume_factor", DefaultVolumeFactor)
        candle_body_pct == dict_get(context, "candle_body_pct", DefaultCandleBodyPct)
        amplitude   == high.n - low.n
        body        == IF amplitude > 0 THEN Abs(close_price.n - open_price.n) ELSE 0
    IN  IF \E i \in DOMAIN required : is_None(required[i])
        THEN FALSE
        ELSE /\ amplitude * Tenths >= atr.n * atr_factor
             /\ volume.n * volume_factor > avg_volume.n * Tenths
             /\ open_price.n # close_price.n
             /\ IF amplitude > 0
                THEN body * 100 * Tenths > candle_body_pct * amplitude
                ELSE 0 > candle_body_pct

elephant_bars_filter_atr_unchecked(stock, context) ==
    LET open_price  == get_field(stock, "open")
        high        == get_field(stock, "high")
        low         == get_field(stock, "low")
        close_price == stock.price
        volume      == stock.volume
        atr         == get_field(stock, "ATR")
        avg_volume  == get_field(stock, "average_volume_30d_calc")
        required    == <<open_price, high, low, close_price, volume, avg_volume>>
    IN  IF \E i \in DOMAIN required : is_None(required[i])
        THEN FALSE
        ELSE elephant_bars_filter_ge(
                 [stock EXCEPT !.raw_data = dict_update(@, [ATR |-> Num(atr.n)])],
                 context)

\* the filter taking the body of a zero-range bar as the whole bar (100%)
elephant_bars_filter_zero_range_full(stock, context) ==
    LET open_price  == get_field(stock, "open")
        high        == get_field(stock, "high")
        low         == get_field(stock, "low")
        close_price == stock.price
        volume      == stock.volume
        atr         == get_field(stock, "ATR")
        avg_volume  == get_field(stock, "average_volume_30d_calc")
        required    == <<open_price, high, low, close_price, volume, atr,
                         avg_volume>>
        missing     == {i \in DOMAIN required : is_None(required[i])}
        atr_factor      == dict_get(context, "atr_factor", DefaultAtrFactor)
        volume_factor   == dict_get(context, "volume_factor", DefaultVolumeFactor)
        candle_body_pct == dict_get(context, "candle_body_pct", DefaultCandleBodyPct)
        amplitude   == high.n - low.n
        \* amplitude > atr * atr_factor
        amp_gt_atr  == amplitude * Tenths > atr.n * atr_factor
        \* volume * volume_factor > avg_volume
        vol_gt_avg  == volume.n * volume_factor > avg_volume.n * Tenths
        body        == IF amplitude > 0 THEN Abs(close_price.n - open_price.n) ELSE 0
        \* body_pct > candle_body_pct, body_pct = body / amplitude * 100 or 0.0
        body_gt_min == IF amplitude > 0
                       THEN body * 100 * Tenths > candle_body_pct * amplitude
                       ELSE 100 * Tenths > candle_body_pct
        signal      == IF amp_gt_atr /\ vol_gt_avg
                       THEN IF open_price.n < close_price.n
                            THEN (IF body_gt_min THEN "buy" ELSE "")
                            ELSE IF open_price.n > close_price.n
                                 THEN (IF body_gt_min THEN "sell" ELSE "")
                                 ELSE ""
                       ELSE ""
    IN  IF missing # {} THEN FALSE ELSE signal # ""

elephant_bars_filter(stock, context) ==
    LET open_price  == get_field(stock, "open")
        high        == get_field(stock, "high")
        low         == get_field(stock, "low")
        close_price == stock.price
        volume      == stock.volume
        atr         == get_field(stock, "ATR")
        avg_volume  == get_field(stock, "average_volume_30d_calc")
        required    == <<open_price, high, low, close_price, volume, atr,
                         avg_volume>>
        missing     == {i \in DOMAIN required : is_None(required[i])}
        atr_factor      == dict_get(context, "atr_factor", DefaultAtrFactor)
        volume_factor   == dict_get(context, "volume_factor", DefaultVolumeFactor)
        candle_body_pct == dict_get(context, "candle_body_pct", DefaultCandleBodyPct)
        amplitude   == high.n - low.n
        \* amplitude > atr * atr_factor
        amp_gt_atr  == amplitude * Tenths > atr.n * atr_factor
        \* volume * volume_factor > avg_volume
        vol_gt_avg  == volume.n * volume_factor > avg_volume.n * Tenths
        body        == IF amplitude > 0 THEN Abs(close_price.n - open_price.n) ELSE 0
        \* body_pct > candle_body_pct, body_pct = body / amplitude * 100 or 0.0
        body_gt_min == IF amplitude > 0
                       THEN body * 100 * Tenths > candle_body_pct * amplitude
                       ELSE 0 > candle_body_pct
        signal      == IF amp_gt_atr /\ vol_gt_avg
                       THEN IF open_price.n < close_price.n
                            THEN (IF body_gt_min THEN "buy" ELSE "")
                            ELSE IF open_price.n > close_price.n
                                 THEN (IF body_gt_min THEN "sell" ELSE "")
                                 ELSE ""
                       ELSE ""
    IN  IF missing # {} THEN FALSE ELSE signal # ""

\* the filter returning False from the call that prints the banner
elephant_bars_filter_call_banner_rejects(printed, stock, context) ==
    [ret |-> printed /\ elephant_bars_filter(stock, context),
     context_printed |-> TRUE, banner |-> ~printed]

\* elephant_bars_filter(stock, context) called while _context_printed has
\* the value printed: the flag guards the banner only and is set by it.
\* What the call leaves: the returned boolean, the module's
\* _context_printed flag, and whether this call printed the context banner
elephant_bars_filter_call(printed, stock, context) ==
    [ret |-> elephant_bars_filter(stock, context),
     context_printed |-> TRUE, banner |-> ~printed]

(***************************************************************************)
(* Outcomes of a call: a returned value or a raised exception              *)
(***************************************************************************)
Return(v) == [kind |-> "return", value |-> v]
Raise(type, message, status_code, names) ==
    [kind |-> "raise", type |-> type, message |-> message,
     status_code |-> status_code, names |-> names]

\* No call in progress, no outcome yet, nothing traced
NoCall == [op |-> "none"]
NoRet == [kind |-> "none"]
NoTrace == [scans |-> <<>>]

(***************************************************************************)
(* config/screening.py: ScreeningConfigManager                             *)
(***************************************************************************)
market_names == <<"brazil", "australia", "america">>

market_configs ==
    [brazil    |-> [name |-> "brazil", symbolset |-> "SYML:BMFBOVESPA;IBOV",
                    default_volume |-> 1000000, market_identifier |-> "brazil"],
     australia |-> [name |-> "australia", symbolset |-> "SYML:ASX;XKO",
                    default_volume |-> 1000000,
                    market_identifier |-> "australia"],
     america   |-> [name |-> "america", symbolset |-> "SYML:SP;SPX",
                    default_volume |-> 10000000,
                    market_identifier |-> "america"]]

legacy_configs ==
    [k \in {"brazil-bmfbovespa-ibov", "australia-asx-xko",
            "america-nasdaq-xnas", "america-sp-spx"} |->
        CASE k = "brazil-bmfbovespa-ibov" -> "brazil"
          [] k = "australia-asx-xko" -> "australia"
          [] OTHER -> "america"]

\* ScreeningConfigManager(): the tables __init__ sets; market_names is the
\* key order of market_configs
ScreeningConfigManager ==
    [market_configs |-> market_configs, market_names |-> market_names,
     legacy_configs |-> legacy_configs]

\* What a lookup leaves: its outcome and the manager
Looked(outcome, tables) == [ret |-> outcome, manager |-> tables]

\* the lookup answering an unknown name with the default market's entry
manager_get_market_config_defaults(tables, config_name) ==
    LET resolved == IF config_name \in DOMAIN tables.legacy_configs
                    THEN tables.legacy_configs[config_name] ELSE config_name
    IN  IF resolved \notin DOMAIN tables.market_configs
        THEN Looked(Return(tables.market_configs["america"]), tables)
        ELSE Looked(Return(tables.market_configs[resolved]), tables)

\* get_market_config on a manager holding the given tables; only the local
\* config_name is assigned
manager_get_market_config(tables, config_name) ==
    LET resolved == IF config_name \in DOMAIN tables.legacy_configs
                    THEN tables.legacy_configs[config_name] ELSE config_name
    IN  IF resolved \notin DOMAIN tables.market_configs
        THEN Looked(Raise("ValueError", "Unknown market config", 0,
                          tables.market_names), tables)
        ELSE Looked(Return(tables.market_configs[resolved]), tables)

\* self.screening_config_manager.get_market_config(market) of an adapter,
\* whose manager is built in the adapter's __init__
get_market_config(config_name) ==
    manager_get_market_config(ScreeningConfigManager, config_name).ret

(***************************************************************************)
(* core/screener.py: ScreeningConfig, and the built-in configurations      *)
(***************************************************************************)
ScreeningConfig(name, provider, parameters, provider_config, filters) ==
    [name |-> name, provider |-> provider, parameters |-> parameters,
     provider_config |-> provider_config, filters |-> filters]

Filter(field, operation, value) ==
    [field |-> field, operation |-> operation, value |-> value]

tv_rsi2 ==
    ScreeningConfig("rsi2", "tv", [rsi_level |-> 5, rsi_period |-> 2],
        [volume_threshold |-> Num(1000000)],
        <<Filter("RSI2", "less", Str("{rsi_level}")),
          Filter("is_blacklisted", "equal", Bool(FALSE))>>)

tv_elephant_bars ==
    ScreeningConfig("elephant_bars", "tv", EmptyDict,
        [extra_columns |-> Lst(<<Str("average_volume_30d_calc"), Str("ATR"),
                                 Str("high"), Str("low"), Str("open")>>),
         use_symbolset |-> Bool(FALSE),
         skip_default_volume_filter |-> Bool(TRUE)],
        <<>>)

tv_crypto_basic ==
    ScreeningConfig("crypto_basic", "tv_crypto", [min_volume |-> 50000000],
        [volume_threshold |-> Str("{min_volume}")],
        <<Filter("24h_vol_cmc", "egreater", Str("{min_volume}"))>>)

finviz_rsi2 ==
    ScreeningConfig("rsi2", "finviz", [rsi_level |-> 5, rsi_period |-> 2],
        [market_cap_min |-> Num(100000000), price_min |-> Num(5),
         sector |-> Str("any")],
        <<Filter("ta_rsi", "under", Num(5)), Filter("sh_price", "over", Num(5)),
          Filter("sh_curvol", "over", Num(1000))>>)

(***************************************************************************)
(* core/screener.py: ScreeningResult                                       *)
(***************************************************************************)
ScreeningResult(symbols, data, metadata, provider, config_name, timestamp) ==
    [symbols |-> symbols, data |-> data, metadata |-> metadata,
     provider |-> provider, config_name |-> config_name,
     timestamp |-> timestamp]

(***************************************************************************)
(* screening/providers: what the TradingView adapters share                *)
(***************************************************************************)
\* str(v) for the values a list may hold
py_str(v) ==
    CASE v.t = "str" -> v.s
      [] v.t = "num" -> ToString(v.n)
      [] v.t = "bool" -> IF v.n = 1 THEN "True" ELSE "False"
      [] OTHER -> "None"

RECURSIVE join(_, _)
\* sep.join(items) for a sequence of strings
join(sep, items) ==
    IF Len(items) = 0 THEN ""
    ELSE IF Len(items) = 1 THEN items[1]
    ELSE items[1] \o sep \o join(sep, Tail(items))

\* [str(v) for v in value if v is not None]
RECURSIVE str_items(_)
str_items(value) ==
    IF Len(value) = 0 THEN <<>>
    ELSE IF is_None(Head(value)) THEN str_items(Tail(value))
    ELSE <<py_str(Head(value))>> \o str_items(Tail(value))

\* _normalize_value, the same in both adapters
normalize_value(value) ==
    IF is_None(value) THEN Str("")
    ELSE IF value.t = "list" THEN Str(join(", ", str_items(value.l)))
    ELSE value

\* float(v): the exception it raises, "" when it converts.  A str cell is
\* text that is no number.
float_error(v) ==
    CASE v.t \in {"num", "bool"} -> ""
      [] v.t = "str" -> "ValueError"
      [] OTHER -> "TypeError"

float(v) == Num(v.n)

\* {col: i for i, col in enumerate(columns)}, indices counted from 0
col_idx(columns) ==
    [col \in {columns[i] : i \in DOMAIN columns} |->
        (CHOOSE i \in DOMAIN columns :
            /\ columns[i] = col
            /\ \A j \in DOMAIN columns : columns[j] = col => j <= i) - 1]

\* d[i] for an index counted from 0
item(d, i) == d[i + 1]

\* build_raw_data keeping the null cells
build_raw_data_with_nulls(idx, d) ==
    [col_name \in {c \in DOMAIN idx : idx[c] < Len(d)} |->
        item(d, idx[col_name])]

\* raw_data as both adapters build it from a row d
build_raw_data(idx, d) ==
    [col_name \in {c \in DOMAIN idx :
                      idx[c] < Len(d) /\ ~is_None(item(d, idx[c]))} |->
        item(d, idx[col_name])]

\* d[col_idx[col]] if col_idx.get(col) is not None and col_idx[col] < len(d)
\*                    and d[col_idx[col]] is not None else default
cell_or(idx, d, col, default) ==
    IF col \in DOMAIN idx /\ idx[col] < Len(d) /\ ~is_None(item(d, idx[col]))
    THEN item(d, idx[col]) ELSE default

\* float(d[col_idx[col]]) if ... else 0.0
float_cell(idx, d, col) ==
    IF col \in DOMAIN idx /\ idx[col] < Len(d) /\ ~is_None(item(d, idx[col]))
    THEN float(item(d, idx[col])) ELSE Num(0)

\* the exception raised by the float conversions of one row, in argument
\* order (price, volume, change, market_cap); "" when none
float_cells_error(idx, d, cols) ==
    LET bad == {k \in DOMAIN cols :
                  /\ cols[k] \in DOMAIN idx /\ idx[cols[k]] < Len(d)
                  /\ ~is_None(item(d, idx[cols[k]]))
                  /\ float_error(item(d, idx[cols[k]])) # ""}
    IN  IF bad = {} THEN ""
        ELSE float_error(item(d, idx[cols[CHOOSE k \in bad :
                                            \A j \in bad : k <= j]]))

\* What a scan hands back: its outcome and the HTTP requests it issued
ScanDone(outcome, requests) == [ret |-> outcome, http |-> requests]

\* The first exception raised while the rows are turned into records, ""
\* when every row converts; data is the sequence of the rows' d arrays
\* (json_response["data"], each item's "d")
rows_error(idx, data, cols) ==
    LET bad == {i \in DOMAIN data : float_cells_error(idx, data[i], cols) # ""}
    IN  IF bad = {} THEN ""
        ELSE float_cells_error(idx,
                 data[CHOOSE i \in bad : \A j \in bad : i <= j], cols)

(***************************************************************************)
(* screening/providers/tradingview.py: TradingViewProvider                 *)
(***************************************************************************)
tv_columns ==
    <<"name", "description", "logoid", "update_mode", "type", "typespecs",
      "close", "pricescale", "minmov", "fractional", "minmove2", "currency",
      "change", "volume", "market_cap_basic", "fundamental_currency_code",
      "price_earnings_ttm", "sector.tr", "market", "sector",
      "recommendation_mark", "exchange">>

tv_float_columns == <<"close", "volume", "change", "market_cap_basic">>

\* the wire triple with the threshold replacing a volume clause's own value
tv_wire_filter_overwrites(filter_def, volume_threshold) ==
    [left |-> filter_def.field, operation |-> filter_def.operation,
     right |-> IF filter_def.field = "volume"
               THEN volume_threshold ELSE filter_def.value]

\* one wire triple per configuration clause; filter_def["value"] is taken
\* from the clause, or is the volume threshold for a volume clause without one
tv_wire_filter(filter_def, volume_threshold) ==
    [left |-> filter_def.field, operation |-> filter_def.operation,
     right |-> IF filter_def.field = "volume" /\ "value" \notin DOMAIN filter_def
               THEN volume_threshold ELSE filter_def.value]

\* the payload with the volume clause appended whatever the configuration
\* clauses are
tv_build_payload_always_volume(config, market_config, sort_by, sort_order) ==
    LET volume_threshold ==
            dict_get(config.provider_config, "volume_threshold",
                     Num(market_config.default_volume))
    IN  [columns |-> tv_columns,
         filter |-> [i \in DOMAIN config.filters |->
                        tv_wire_filter(config.filters[i], volume_threshold)]
                    \o <<[left |-> "volume", operation |-> "greater",
                          right |-> volume_threshold]>>,
         ignore_unknown_fields |-> FALSE,
         options |-> [lang |-> "en"],
         range |-> <<0, 100>>,
         sort |-> [sortBy |-> sort_by, sortOrder |-> sort_order],
         symbols |-> [symbolset |-> <<market_config.symbolset>>],
         markets |-> <<market_config.market_identifier>>,
         filter2 |-> "stock_type_filter"]

\* the payload asking also for the columns provider_config's extra_columns
\* lists
tv_build_payload_extra_columns(config, market_config, sort_by, sort_order) ==
    LET volume_threshold ==
            dict_get(config.provider_config, "volume_threshold",
                     Num(market_config.default_volume))
        filters == [i \in DOMAIN config.filters |->
                       tv_wire_filter(config.filters[i], volume_threshold)]
        volume_filter ==
            IF \E i \in DOMAIN config.filters : config.filters[i].field = "volume"
            THEN <<>>
            ELSE <<[left |-> "volume", operation |-> "greater",
                    right |-> volume_threshold]>>
        extra_columns == dict_get(config.provider_config, "extra_columns",
                                  Lst(<<>>)).l
    IN  [columns |-> tv_columns
                        \o [i \in DOMAIN extra_columns |-> extra_columns[i].s],
         filter |-> filters \o volume_filter,
         ignore_unknown_fields |-> FALSE,
         options |-> [lang |-> "en"],
         range |-> <<0, 100>>,
         sort |-> [sortBy |-> sort_by, sortOrder |-> sort_order],
         symbols |-> [symbolset |-> <<market_config.symbolset>>],
         markets |-> <<market_config.market_identifier>>,
         filter2 |-> "stock_type_filter"]

tv_build_payload(config, market_config, sort_by, sort_order) ==
    LET volume_threshold ==
            dict_get(config.provider_config, "volume_threshold",
                     Num(market_config.default_volume))
        filters == [i \in DOMAIN config.filters |->
                       tv_wire_filter(config.filters[i], volume_threshold)]
        volume_filter ==
            IF \E i \in DOMAIN config.filters : config.filters[i].field = "volume"
            THEN <<>>
            ELSE <<[left |-> "volume", operation |-> "greater",
                    right |-> volume_threshold]>>
    IN  [columns |-> tv_columns,
         filter |-> filters \o volume_filter,
         ignore_unknown_fields |-> FALSE,
         options |-> [lang |-> "en"],
         range |-> <<0, 100>>,
         sort |-> [sortBy |-> sort_by, sortOrder |-> sort_order],
         symbols |-> [symbolset |-> <<market_config.symbolset>>],
         markets |-> <<market_config.market_identifier>>,
         filter2 |-> "stock_type_filter"]

\* symbol = d[col_idx["name"]] if col_idx["name"] < len(d) else ""
tv_symbol(idx, d) ==
    IF idx["name"] < Len(d) THEN item(d, idx["name"]) ELSE Str("")

\* the StockData built from one row d
tv_stock(idx, d) ==
    StockData(
        tv_symbol(idx, d),
        normalize_value(IF "description" \in DOMAIN idx /\ idx["description"] < Len(d)
                        THEN item(d, idx["description"]) ELSE Str("")),
        float_cell(idx, d, "close"),
        float_cell(idx, d, "volume"),
        float_cell(idx, d, "change"),
        float_cell(idx, d, "market_cap_basic"),
        normalize_value(cell_or(idx, d, "sector", Str(""))),
        normalize_value(cell_or(idx, d, "exchange", Str(""))),
        normalize_value(cell_or(idx, d, "currency", Str(""))),
        build_raw_data(idx, d))

tv_parse(config, market_config, payload, response, now) ==
    LET data == response.data.l
        idx  == col_idx(payload.columns)
        stock_data == [i \in DOMAIN data |-> tv_stock(idx, data[i])]
        symbols == [i \in DOMAIN data |-> tv_symbol(idx, data[i])]
    IN  IF response.data.t # "list"
        THEN Raise("TypeError", "'NoneType' object is not iterable", 0, <<>>)
        ELSE IF rows_error(idx, data, tv_float_columns) # ""
        THEN Raise(rows_error(idx, data, tv_float_columns), "float()", 0, <<>>)
        ELSE Return(ScreeningResult(symbols, stock_data,
                 [market |-> market_config.name,
                  symbolset |-> market_config.symbolset,
                  filters_applied |-> Len(config.filters),
                  response_status |-> response.status_code,
                  total_results |-> Len(symbols)],
                 "TradingView", config.name, now))

\* tv_scan posting the request a second time after an error status
tv_scan_repost(config, market, sort_by, sort_order, response, now) ==
    IF config.provider # "tv"
    THEN ScanDone(Raise("ValueError",
                        "is not compatible with TradingView provider", 0, <<>>),
                  <<>>)
    ELSE LET market_config == get_market_config(market)
         IN  IF market_config.kind = "raise"
             THEN ScanDone(market_config, <<>>)
             ELSE LET payload == tv_build_payload(config, market_config.value,
                                                  sort_by, sort_order)
                      request == [url |-> "https://scanner.tradingview.com/"
                                            \o market_config.value.market_identifier
                                            \o "/scan",
                                  payload |-> payload]
                  IN  IF response.status_code = 200
                      THEN ScanDone(tv_parse(config, market_config.value,
                                             payload, response, now),
                                    <<request>>)
                      ELSE ScanDone(Raise("Exception", "TradingView API error",
                                          response.status_code, <<>>),
                                    <<request, request>>)

\* tv_scan posting the request before it checks the provider
tv_scan_eager(config, market, sort_by, sort_order, response, now) ==
    LET market_config == get_market_config(
            IF get_market_config(market).kind = "raise"
            THEN "america" ELSE market)
        payload == tv_build_payload(config, market_config.value, sort_by,
                                    sort_order)
        request == [url |-> "https://scanner.tradingview.com/scan",
                    payload |-> payload]
    IN  IF config.provider # "tv"
        THEN ScanDone(Raise("ValueError",
                            "is not compatible with TradingView provider", 0,
                            <<>>),
                      <<request>>)
        ELSE IF get_market_config(market).kind = "raise"
        THEN ScanDone(get_market_config(market), <<>>)
        ELSE IF response.status_code = 200
        THEN ScanDone(tv_parse(config, market_config.value, payload, response,
                               now),
                      <<request>>)
        ELSE ScanDone(Raise("Exception", "TradingView API error",
                            response.status_code, <<>>),
                      <<request>>)

tv_scan(config, market, sort_by, sort_order, response, now) ==
    IF config.provider # "tv"
    THEN ScanDone(Raise("ValueError",
                        "is not compatible with TradingView provider", 0, <<>>),
                  <<>>)
    ELSE LET market_config == get_market_config(market)
         IN  IF market_config.kind = "raise"
             THEN ScanDone(market_config, <<>>)
             ELSE LET payload == tv_build_payload(config, market_config.value,
                                                  sort_by, sort_order)
                      request == [url |-> "https://scanner.tradingview.com/"
                                            \o market_config.value.market_identifier
                                            \o "/scan",
                                  payload |-> payload]
                  IN  ScanDone(
                          IF response.status_code = 200
                          THEN tv_parse(config, market_config.value, payload,
                                        response, now)
                          ELSE Raise("Exception", "TradingView API error",
                                     response.status_code, <<>>),
                          <<request>>)

(***************************************************************************)
(* screening/providers/tradingview_crypto.py: TradingViewCryptoProvider    *)
(***************************************************************************)
crypto_columns ==
    <<"base_currency", "base_currency_desc", "base_currency_logoid",
      "update_mode", "type", "typespecs", "exchange", "crypto_total_rank",
      "close", "pricescale", "minmov", "fractional", "minmove2", "currency",
      "24h_close_change|5", "market_cap_calc", "fundamental_currency_code",
      "24h_vol_cmc", "circulating_supply", "24h_vol_to_market_cap",
      "socialdominance", "crypto_common_categories.tr", "TechRating_1D",
      "TechRating_1D.tr">>

crypto_float_columns ==
    <<"close", "24h_vol_cmc", "24h_close_change|5", "market_cap_calc">>

crypto_default_volume == 100000000

crypto_wire_filter(filter_def, default_volume_threshold) ==
    [left |-> filter_def.field, operation |-> filter_def.operation,
     right |-> IF filter_def.field = "24h_vol_cmc"
                  /\ "value" \notin DOMAIN filter_def
               THEN default_volume_threshold ELSE filter_def.value]

crypto_build_payload(config, sort_by, sort_order) ==
    LET default_volume_threshold ==
            dict_get(config.provider_config, "volume_threshold",
                     Num(crypto_default_volume))
        filters == [i \in DOMAIN config.filters |->
                       crypto_wire_filter(config.filters[i],
                                          default_volume_threshold)]
        volume_filter ==
            IF \E i \in DOMAIN config.filters :
                   config.filters[i].field = "24h_vol_cmc"
            THEN <<>>
            ELSE <<[left |-> "24h_vol_cmc", operation |-> "egreater",
                    right |-> default_volume_threshold]>>
    IN  [columns |-> crypto_columns,
         filter |-> filters \o volume_filter,
         ignore_unknown_fields |-> FALSE,
         options |-> [lang |-> "en"],
         range |-> <<0, 100>>,
         sort |-> [sortBy |-> sort_by, sortOrder |-> sort_order],
         symbols |-> EmptyDict,
         markets |-> <<"coin">>]

\* symbol = d[col_idx["base_currency"]] if col_idx["base_currency"] < len(d) else ""
crypto_symbol(idx, d) ==
    IF idx["base_currency"] < Len(d)
    THEN item(d, idx["base_currency"]) ELSE Str("")

crypto_stock(idx, d) ==
    StockData(
        crypto_symbol(idx, d),
        normalize_value(cell_or(idx, d, "base_currency_desc", Str(""))),
        float_cell(idx, d, "close"),
        float_cell(idx, d, "24h_vol_cmc"),
        float_cell(idx, d, "24h_close_change|5"),
        float_cell(idx, d, "market_cap_calc"),
        normalize_value(cell_or(idx, d, "crypto_common_categories.tr", Str(""))),
        normalize_value(cell_or(idx, d, "exchange", Str(""))),
        normalize_value(cell_or(idx, d, "currency", Str(""))),
        build_raw_data(idx, d))

crypto_parse(config, payload, response, now) ==
    LET data == response.data.l
        idx  == col_idx(payload.columns)
        crypto_data == [i \in DOMAIN data |-> crypto_stock(idx, data[i])]
        symbols == [i \in DOMAIN data |-> crypto_symbol(idx, data[i])]
    IN  IF response.data.t # "list"
        THEN Raise("TypeError", "'NoneType' object is not iterable", 0, <<>>)
        ELSE IF rows_error(idx, data, crypto_float_columns) # ""
        THEN Raise(rows_error(idx, data, crypto_float_columns), "float()", 0, <<>>)
        ELSE Return(ScreeningResult(symbols, crypto_data,
                 [market |-> "crypto",
                  symbolset |-> "coin",
                  filters_applied |-> Len(config.filters),
                  response_status |-> response.status_code,
                  total_results |-> Len(symbols),
                  total_count |-> response.totalCount],
                 "TradingViewCrypto", config.name, now))

crypto_scan(config, market, sort_by, sort_order, response, now) ==
    IF config.provider # "tv_crypto"
    THEN ScanDone(Raise("ValueError",
                        "is not compatible with TradingViewCrypto provider",
                        0, <<>>),
                  <<>>)
    ELSE LET payload == crypto_build_payload(config, sort_by, sort_order)
             request == [url |-> "https://scanner.tradingview.com/coin/scan?label-product=screener-coin",
                         payload |-> payload]
         IN  ScanDone(
                 IF response.status_code = 200
                 THEN crypto_parse(config, payload, response, now)
                 ELSE Raise("Exception", "TradingViewCrypto API error",
                            response.status_code, <<>>),
                 <<request>>)

(***************************************************************************)
(* screening/providers/finviz.py: FinvizProvider                           *)
(***************************************************************************)
finviz_mock_symbols == <<"AAPL", "MSFT", "GOOGL">>

\* price and change are written in hundredths (185.50 is 18550), market_cap
\* in millions
finviz_mock_data ==
    <<StockData(Str("AAPL"), Str("Apple Inc."), Num(18550), Num(50000000),
                Num(125), Num(2900000), Str("Technology"), Str("NASDAQ"),
                None, None),
      StockData(Str("MSFT"), Str("Microsoft Corporation"), Num(39075),
                Num(28000000), Num(85), Num(2850000), Str("Technology"),
                Str("NASDAQ"), None, None),
      StockData(Str("GOOGL"), Str("Alphabet Inc."), Num(14225), Num(22000000),
                Num(-45), Num(1780000), Str("Technology"), Str("NASDAQ"),
                None, None)>>

finviz_scan(config, market, now) ==
    IF config.provider # "finviz"
    THEN ScanDone(Raise("ValueError",
                        "is not compatible with Finviz provider", 0, <<>>),
                  <<>>)
    ELSE LET mock_symbols == IF market = "america"
                             THEN finviz_mock_symbols ELSE <<>>
             mock_data == IF market = "america" THEN finviz_mock_data ELSE <<>>
         IN  ScanDone(
                 Return(ScreeningResult(
                     [i \in DOMAIN mock_symbols |-> Str(mock_symbols[i])],
                     mock_data,
                     [market |-> market,
                      filters_applied |-> Len(config.filters),
                      provider_config |-> config.provider_config,
                      total_results |-> Len(mock_symbols),
                      note |-> "Mock implementation"],
                     "Finviz", config.name, now)),
                 <<>>)

(***************************************************************************)
(* screening/post_filters/__init__.py: the post-filter registry            *)
(***************************************************************************)
\* What a registry call leaves: its outcome and the registry
Registered(outcome, registry) == [ret |-> outcome, registry |-> registry]

\* register_post_filter binding the name anew when it is already bound
register_post_filter_replaces(registry, name, fn) ==
    Registered(Return(None),
               [n \in DOMAIN registry \cup {name} |->
                   IF n = name THEN fn ELSE registry[n]])

register_post_filter(registry, name, fn) ==
    IF name \in DOMAIN registry
    THEN Registered(Raise("ValueError", "is already registered", 0, <<>>),
                    registry)
    ELSE Registered(Return(None),
                    [n \in DOMAIN registry \cup {name} |->
                        IF n = name THEN fn ELSE registry[n]])

get_post_filter(registry, name) ==
    IF name \notin DOMAIN registry
    THEN Raise("ValueError", "Post-filter not found", 0, DOMAIN registry)
    ELSE Return(registry[name])

\* the test binding a name it does not find to a default predicate
lookup_test_inserts(registry, name) ==
    [found |-> TRUE,
     registry |-> [n \in DOMAIN registry \cup {name} |->
                      IF n \in DOMAIN registry THEN registry[n]
                      ELSE "keep_all"]]

\* name not in _post_filters (negated): the dictionary is only read. What
\* the test leaves: its answer and the registry
lookup_test(registry, name) ==
    [found |-> name \in DOMAIN registry, registry |-> registry]

\* return _post_filters[name], evaluated on the registry as it is then
lookup_fetch(registry, name) ==
    IF name \in DOMAIN registry THEN Return(registry[name])
    ELSE Raise("KeyError", name, 0, <<>>)

\* available = list(_post_filters.keys()); raise ValueError(...)
lookup_missing(registry, name) ==
    Raise("ValueError", "Post-filter not found", 0, DOMAIN registry)

\* list_post_filters(): the registered names
list_post_filters(registry) == Return(DOMAIN registry)

\* Calling a predicate.  Besides elephant_bars_filter the predicates are the
\* ones the tests pass: keep_all, reject_all and the price filter.
apply_post_filter(fn, stock, context) ==
    CASE fn = "elephant_bars_filter" -> elephant_bars_filter(stock, context)
      [] fn = "keep_all" -> TRUE
      [] fn = "reject_all" -> FALSE
      [] fn = "price_filter" ->
            stock.price.n > dict_get(context, "min_price", 0)

(***************************************************************************)
(* connors_core (BaseService, registry, parameter_override): a separate    *)
(* package, written here from the specification                            *)
(***************************************************************************)
validate_required_params(provider, config) ==
    IF provider = "" \/ config = ""
    THEN Raise("ValueError", "Missing required parameter", 0, <<>>)
    ELSE Return(TRUE)

\* A parameter string "k1:v1;k2:v2" is given as its <<key, value>> pairs
\* (none for a string that is None or empty);
\* a later pair replaces an earlier one with the same key
parse_parameter_string(parameter_string) ==
    [k \in {parameter_string[i][1] : i \in DOMAIN parameter_string} |->
        parameter_string[CHOOSE i \in DOMAIN parameter_string :
            /\ parameter_string[i][1] = k
            /\ \A j \in DOMAIN parameter_string :
                  parameter_string[j][1] = k => j <= i][2]]

screener_providers == {"tv", "tv_crypto", "finviz"}

create_screener_provider(provider) ==
    IF provider \in screener_providers
    THEN Return(provider)
    ELSE Raise("NotFound", "Unknown screener provider", 0, <<>>)

get_screening_config(configs, provider, config) ==
    IF <<provider, config>> \in DOMAIN configs
    THEN Return(configs[<<provider, config>>])
    ELSE Raise("NotFound", "Unknown screening config", 0, <<>>)

\* "{key}" replaced by the merged parameter's value
resolve_placeholder(v, merged) ==
    IF v.t = "str" /\ \E k \in DOMAIN merged : v.s = "{" \o k \o "}"
    THEN Num(merged[CHOOSE k \in DOMAIN merged : v.s = "{" \o k \o "}"])
    ELSE v

apply_parameter_overrides(config, overrides) ==
    LET merged == dict_update(config.parameters, overrides)
    IN  [config EXCEPT
            !.parameters = merged,
            !.provider_config =
                [k \in DOMAIN @ |-> resolve_placeholder(@[k], merged)],
            !.filters =
                [i \in DOMAIN @ |->
                    IF "value" \in DOMAIN @[i]
                    THEN [@[i] EXCEPT !.value = resolve_placeholder(@, merged)]
                    ELSE @[i]]]

\* registry.register_screening_config(provider, name, config): the entry is
\* stored under the two-level key, replacing an entry already there
register_screening_config(configs, provider, name, config) ==
    [key \in DOMAIN configs \cup {<<provider, name>>} |->
        IF key = <<provider, name>> THEN config ELSE configs[key]]

(***************************************************************************)
(* screening/config_loader.py: ScreeningConfigLoader                       *)
(*                                                                         *)
(* A configuration document is the dictionary json.load / yaml.safe_load   *)
(* gives; a file is whether it exists, its suffix and that dictionary.     *)
(***************************************************************************)
METADATA_FIELDS == {"post_filter", "post_filter_context"}

supported_formats == {".json", ".yaml", ".yml"}

required_fields == <<"name", "provider", "filters">>

\* _create_config_from_dict copying the metadata keys into parameters
create_config_from_dict_keeps_metadata(config_data) ==
    IF \E i \in DOMAIN required_fields : required_fields[i] \notin DOMAIN config_data
    THEN Raise("ValueError", "Missing required field", 0,
               <<required_fields[
                   CHOOSE i \in DOMAIN required_fields :
                      /\ required_fields[i] \notin DOMAIN config_data
                      /\ \A j \in 1..(i - 1) :
                            required_fields[j] \in DOMAIN config_data]>>)
    ELSE Return([name |-> config_data.name,
                 provider |-> config_data.provider,
                 parameters |->
                     dict_update(dict_get(config_data, "parameters", EmptyDict),
                         [k \in DOMAIN config_data \cap METADATA_FIELDS |->
                             config_data[k]]),
                 provider_config |->
                     dict_get(config_data, "provider_config", EmptyDict),
                 filters |-> config_data.filters,
                 description |-> dict_get(config_data, "description", "")])

\* _create_config_from_dict: the first required field that is missing is
\* named in the ValueError; otherwise the ScreeningConfig
create_config_from_dict(config_data) ==
    IF \E i \in DOMAIN required_fields : required_fields[i] \notin DOMAIN config_data
    THEN Raise("ValueError", "Missing required field", 0,
               <<required_fields[
                   CHOOSE i \in DOMAIN required_fields :
                      /\ required_fields[i] \notin DOMAIN config_data
                      /\ \A j \in 1..(i - 1) :
                            required_fields[j] \in DOMAIN config_data]>>)
    ELSE Return([name |-> config_data.name,
                 provider |-> config_data.provider,
                 parameters |-> dict_get(config_data, "parameters", EmptyDict),
                 provider_config |->
                     dict_get(config_data, "provider_config", EmptyDict),
                 filters |-> config_data.filters,
                 description |-> dict_get(config_data, "description", "")])

\* data["configurations"] if "configurations" in data else [data]
config_dicts(data) ==
    IF "configurations" \in DOMAIN data THEN data.configurations ELSE <<data>>

\* the outcomes of _create_config_from_dict in document order, up to the
\* first that raises
created_configs(dicts) ==
    [i \in DOMAIN dicts |-> create_config_from_dict(dicts[i])]

\* _parse_config_data: the configurations in document order, or the first
\* error
parse_config_data(data) ==
    IF \E i \in DOMAIN config_dicts(data) :
          created_configs(config_dicts(data))[i].kind = "raise"
    THEN created_configs(config_dicts(data))[
            CHOOSE i \in DOMAIN config_dicts(data) :
               /\ created_configs(config_dicts(data))[i].kind = "raise"
               /\ \A j \in 1..(i - 1) :
                     created_configs(config_dicts(data))[j].kind = "return"]
    ELSE Return([i \in DOMAIN config_dicts(data) |->
                    created_configs(config_dicts(data))[i].value])

load_from_dict(config_data) == parse_config_data(config_data)

\* The existence and suffix checks and the json / yaml load that open
\* load_from_file and load_from_file_with_metadata
read_config_file(file) ==
    IF ~file.exists
    THEN Raise("FileNotFoundError", "Configuration file not found", 0, <<>>)
    ELSE IF file.suffix \notin supported_formats
    THEN Raise("ValueError", "Unsupported file format", 0, <<>>)
    ELSE Return(file.data)

\* load_from_file: the checks and the load, then _parse_config_data
load_from_file(file) ==
    IF read_config_file(file).kind = "raise" THEN read_config_file(file)
    ELSE parse_config_data(read_config_file(file).value)

\* _extract_metadata_from_dict
extract_metadata_from_dict(config_data) ==
    [key \in METADATA_FIELDS \cap DOMAIN config_data |-> config_data[key]]

RECURSIVE collect_metadata(_, _, _)
\* for cfg_dict in config_dicts: if meta: metadata_by_name[cfg_dict["name"]]
\* = meta, from entry i on; a missing "name" raises KeyError
collect_metadata(dicts, i, metadata_by_name) ==
    IF i > Len(dicts) THEN Return(metadata_by_name)
    ELSE IF DOMAIN extract_metadata_from_dict(dicts[i]) = {}
    THEN collect_metadata(dicts, i + 1, metadata_by_name)
    ELSE IF "name" \notin DOMAIN dicts[i]
    THEN Raise("KeyError", "name", 0, <<"name">>)
    ELSE collect_metadata(dicts, i + 1,
             dict_update(metadata_by_name,
                 [n \in {dicts[i].name} |->
                     extract_metadata_from_dict(dicts[i])]))

\* load_from_file_with_metadata: the checks and the load, the metadata
\* collected before the configurations are parsed, then
\* return configs, metadata_by_name: a pair
load_from_file_with_metadata(file) ==
    IF read_config_file(file).kind = "raise" THEN read_config_file(file)
    ELSE IF collect_metadata(config_dicts(file.data), 1, EmptyDict).kind
                = "raise"
    THEN collect_metadata(config_dicts(file.data), 1, EmptyDict)
    ELSE IF parse_config_data(file.data).kind = "raise"
    THEN parse_config_data(file.data)
    ELSE Return(<<parse_config_data(file.data).value,
                  collect_metadata(config_dicts(file.data), 1,
                                   EmptyDict).value>>)

RECURSIVE register_configs(_, _, _)
\* for config in configs: registry.register_screening_config(...), from
\* configuration i on
register_configs(registry, configs, i) ==
    IF i > Len(configs) THEN registry
    ELSE register_configs(
             register_screening_config(registry, configs[i].provider,
                                       configs[i].name, configs[i]),
             configs, i + 1)

\* register_configs_from_file registering each configuration as soon as it
\* is parsed: the configurations that precede the first entry that cannot
\* be parsed are registered before the error is raised
register_configs_from_file_as_parsed(registry, file) ==
    IF load_from_file(file).kind = "raise"
    THEN Registered(load_from_file(file),
             IF read_config_file(file).kind = "raise" THEN registry
             ELSE register_configs(registry,
                      [i \in 1..((CHOOSE b \in DOMAIN config_dicts(file.data) :
                          /\ created_configs(config_dicts(file.data))[b].kind
                                 = "raise"
                          /\ \A j \in 1..(b - 1) :
                                created_configs(config_dicts(file.data))[j].kind
                                    = "return") - 1) |->
                          created_configs(config_dicts(file.data))[i].value],
                      1))
    ELSE Registered(Return([i \in DOMAIN load_from_file(file).value |->
                        load_from_file(file).value[i].provider \o ":"
                            \o load_from_file(file).value[i].name]),
                    register_configs(registry, load_from_file(file).value, 1))

\* register_configs_from_file: every configuration is loaded, then each is
\* registered
register_configs_from_file(registry, file) ==
    IF load_from_file(file).kind = "raise"
    THEN Registered(load_from_file(file), registry)
    ELSE Registered(Return([i \in DOMAIN load_from_file(file).value |->
                        load_from_file(file).value[i].provider \o ":"
                            \o load_from_file(file).value[i].name]),
                    register_configs(registry, load_from_file(file).value, 1))

register_configs_from_file_with_metadata(registry, file) ==
    IF load_from_file_with_metadata(file).kind = "raise"
    THEN Registered(load_from_file_with_metadata(file), registry)
    ELSE Registered(
             Return(<<[i \in DOMAIN load_from_file_with_metadata(file).value[1] |->
                           load_from_file_with_metadata(file).value[1][i]
                                   .provider \o ":"
                               \o load_from_file_with_metadata(file)
                                   .value[1][i].name],
                      load_from_file_with_metadata(file).value[2]>>),
             register_configs(registry,
                 load_from_file_with_metadata(file).value[1], 1))

(***************************************************************************)
(* services/screener_service.py: ScreenerService.run_screening             *)
(***************************************************************************)
\* if x: for an optional dictionary
truthy(x) == x # None /\ DOMAIN x # {}

\* the merge in which the string's entries win on shared keys
merge_parameters_string_wins(parameters, parameter_string) ==
    LET parsed_params == IF Len(parameter_string) > 0
                         THEN parse_parameter_string(parameter_string)
                         ELSE EmptyDict
    IN  IF truthy(parameters)
        THEN dict_update(parameters, parsed_params) ELSE parsed_params

\* parsed_params: the parsed string, updated with the parameters dict
merge_parameters(parameters, parameter_string) ==
    LET parsed_params == IF Len(parameter_string) > 0
                         THEN parse_parameter_string(parameter_string)
                         ELSE EmptyDict
    IN  IF truthy(parameters)
        THEN dict_update(parsed_params, parameters) ELSE parsed_params

\* What one call of an adapter's scan did: its outcome, the requests it
\* posted, the number of positional arguments, and whether the call got as
\* far as the method's body
ScanAttempt(done, nargs, body) ==
    [ret |-> done.ret, http |-> done.http, nargs |-> nargs, body |-> body]

\* One call of provider_instance.scan with nargs positional arguments after
\* self: 4 is (config, market, sort_by, sort_order), 2 is (config, market).
\* FinvizProvider.scan takes two, so four raise TypeError at the call.
provider_scan(provider, config, market, nargs, sort_by, sort_order, response, now) ==
    ScanAttempt(
        CASE provider = "tv" ->
                tv_scan(config, market,
                        IF nargs = 4 THEN sort_by ELSE "close",
                        IF nargs = 4 THEN sort_order ELSE "asc",
                        response, now)
          [] provider = "tv_crypto" ->
                crypto_scan(config, market,
                        IF nargs = 4 THEN sort_by ELSE "crypto_total_rank",
                        IF nargs = 4 THEN sort_order ELSE "asc",
                        response, now)
          [] provider = "finviz" ->
                IF nargs = 4
                THEN ScanDone(Raise("TypeError",
                         "scan() takes from 2 to 3 positional arguments",
                         0, <<>>), <<>>)
                ELSE finviz_scan(config, market, now),
        nargs, ~(provider = "finviz" /\ nargs = 4))

\* except TypeError: scan(config, market), after the first attempt
scan_fallback(provider, config, market, sort_by, sort_order, responses, now, first) ==
    IF first.ret.kind = "raise" /\ first.ret.type = "TypeError"
    THEN <<first,
           provider_scan(provider, config, market, 2, sort_by, sort_order,
                         responses[2], now)>>
    ELSE <<first>>

\* try: scan(config, market, sort_by, sort_order)
\* except TypeError: scan(config, market)
scan_stage(provider, config, market, sort_by, sort_order, responses, now) ==
    scan_fallback(provider, config, market, sort_by, sort_order, responses,
                  now,
                  provider_scan(provider, config, market, 4, sort_by,
                                sort_order, responses[1], now))

\* the context with the configuration's values winning on shared keys
build_filter_context_parameters_win(parameters, post_filter_context) ==
    [filter_context |-> IF truthy(post_filter_context)
                        THEN dict_update(post_filter_context, parameters)
                        ELSE parameters,
     parameters |-> parameters]

\* filter_context = dict(screening_config.parameters), then
\* update(post_filter_context) when that is given and not empty.  The two
\* dictionaries after these statements: the context, and the configuration's
\* parameters, which the update does not reach because dict() copied them.
build_filter_context(parameters, post_filter_context) ==
    [filter_context |-> IF truthy(post_filter_context)
                        THEN dict_update(parameters, post_filter_context)
                        ELSE parameters,
     parameters |-> parameters]

\* the records the predicate rejected
filter_data_negated(data, verdicts) ==
    LET kept == {i \in DOMAIN data : ~verdicts[i]}
        RECURSIVE pick(_)
        pick(i) == IF i > Len(data) THEN <<>>
                   ELSE IF i \in kept THEN <<data[i]>> \o pick(i + 1)
                   ELSE pick(i + 1)
    IN  pick(1)

\* [stock for stock in data if verdict of stock]
filter_data(data, verdicts) ==
    LET kept == {i \in DOMAIN data : verdicts[i]}
        RECURSIVE pick(_)
        pick(i) == IF i > Len(data) THEN <<>>
                   ELSE IF i \in kept THEN <<data[i]>> \o pick(i + 1)
                   ELSE pick(i + 1)
    IN  pick(1)

\* the rebuilt result with the two counts exchanged
filtered_result_counts_swapped(result, filtered_data, pre_filter_count) ==
    ScreeningResult(
        [i \in DOMAIN filtered_data |-> filtered_data[i].symbol],
        filtered_data,
        dict_update(result.metadata,
                    [post_filter_applied |-> TRUE,
                     pre_filter_count |-> Len(filtered_data),
                     post_filter_count |-> pre_filter_count]),
        result.provider, result.config_name, result.timestamp)

\* ScreeningResult(symbols=filtered_symbols, data=filtered_data, metadata=...)
filtered_result(result, filtered_data, pre_filter_count) ==
    ScreeningResult(
        [i \in DOMAIN filtered_data |-> filtered_data[i].symbol],
        filtered_data,
        dict_update(result.metadata,
                    [post_filter_applied |-> TRUE,
                     pre_filter_count |-> pre_filter_count,
                     post_filter_count |-> Len(filtered_data)]),
        result.provider, result.config_name, result.timestamp)

\* A post_filter argument is None, a name or a callable
NoFilter == [tag |-> "none", name |-> "", fn |-> ""]
NamedFilter(name) == [tag |-> "name", name |-> name, fn |-> ""]
DirectFilter(fn) == [tag |-> "callable", name |-> "", fn |-> fn]

\* What the lines after the scan did: the outcome, and per record of the
\* provider's result the context the predicate was called with and what it
\* returned; the names looked up in the registry; the configuration's
\* parameters afterwards; the provider's result object afterwards
Stage(outcome, contexts, verdicts, lookups, parameters, provider_result) ==
    [ret |-> outcome, contexts |-> contexts, verdicts |-> verdicts,
     lookups |-> lookups, parameters |-> parameters,
     provider_result |-> provider_result]

\* if isinstance(post_filter, str): get_post_filter(post_filter)
\* elif post_filter is not None: post_filter
resolve_post_filter(registry, post_filter) ==
    IF post_filter.tag = "name"
    THEN get_post_filter(registry, post_filter.name)
    ELSE Return(post_filter.fn)

\* the filtered contents and added metadata written into the provider's
\* result object, which is then returned
apply_verdicts_in_place(result, post_filter, built, verdicts) ==
    Stage(Return(filtered_result(result, filter_data(result.data, verdicts),
                                 Len(result.data))),
          [i \in DOMAIN result.data |-> built.filter_context],
          verdicts,
          IF post_filter.tag = "name" THEN <<post_filter.name>> ELSE <<>>,
          built.parameters,
          filtered_result(result, filter_data(result.data, verdicts),
                          Len(result.data)))

\* the list comprehension and the rebuilt result, given the predicate's
\* verdicts; the comprehension, the {**result.metadata, ...} literal and
\* ScreeningResult(...) make new objects, so the provider's result stays
apply_verdicts(result, post_filter, built, verdicts) ==
    Stage(Return(filtered_result(result, filter_data(result.data, verdicts),
                                 Len(result.data))),
          [i \in DOMAIN result.data |-> built.filter_context],
          verdicts,
          IF post_filter.tag = "name" THEN <<post_filter.name>> ELSE <<>>,
          built.parameters,
          result)

\* if resolved_post_filter is not None: ..., given the context built
apply_resolved(result, post_filter, fn, built) ==
    apply_verdicts(result, post_filter, built,
        [i \in DOMAIN result.data |->
            apply_post_filter(fn, result.data[i], built.filter_context)])

\* the lines after the scan filtering with an accept-all predicate when no
\* post-filter is given
resolved_stage_always_filters(result, screening_config, post_filter, post_filter_context, resolved) ==
    IF resolved.kind = "raise"
    THEN Stage(resolved, <<>>, <<>>, <<post_filter.name>>,
               screening_config.parameters, result)
    ELSE apply_resolved(result, post_filter,
             IF post_filter.tag = "none" THEN "keep_all" ELSE resolved.value,
             build_filter_context(screening_config.parameters,
                                  post_filter_context))

\* the lines after the scan, given the outcome of the lookup
resolved_stage(result, screening_config, post_filter, post_filter_context, resolved) ==
    IF resolved.kind = "raise"
    THEN Stage(resolved, <<>>, <<>>, <<post_filter.name>>,
               screening_config.parameters, result)
    ELSE IF post_filter.tag = "none"
    THEN Stage(Return(result), <<>>, <<>>, <<>>, screening_config.parameters,
               result)
    ELSE apply_resolved(result, post_filter, resolved.value,
             build_filter_context(screening_config.parameters,
                                  post_filter_context))

\* The lines after the scan: resolve the post-filter, apply it, rebuild the
\* result
post_filter_stage(registry, result, screening_config, post_filter, post_filter_context) ==
    resolved_stage(result, screening_config, post_filter, post_filter_context,
                   resolve_post_filter(registry, post_filter))

\* What a finished run_screening leaves: the outcome, the requests, and the
\* trace of its steps: the scan attempts, what the last one produced, the
\* resolved configuration, its parameters at the end of the call, and the
\* post-filter's lookups, contexts and verdicts
Ran(outcome, scans, config, stage) ==
    [ret |-> outcome,
     http |-> IF Len(scans) = 2 THEN scans[1].http \o scans[2].http
              ELSE IF Len(scans) = 1 THEN scans[1].http ELSE <<>>,
     trace |-> [scans |-> [i \in DOMAIN scans |->
                              [nargs |-> scans[i].nargs, body |-> scans[i].body,
                               kind |-> scans[i].ret.kind,
                               requests |-> Len(scans[i].http)]],
                provider_result |->
                    IF Len(scans) > 0 THEN scans[Len(scans)].ret ELSE NoRet,
                config |-> config,
                parameters_after |-> stage.parameters,
                provider_result_after |-> stage.provider_result,
                contexts |-> stage.contexts,
                verdicts |-> stage.verdicts,
                lookups |-> stage.lookups]]

\* run_screening left before the post-filter lines
NoStage(outcome, parameters) ==
    Stage(outcome, <<>>, <<>>, <<>>, parameters, NoRet)

\* return result, or the exception of the post-filter lookup
run_screening_return(screening_config, scans, stage) ==
    Ran(stage.ret, scans, screening_config, stage)

\* run_screening looking the name up before it scans: an unknown name is
\* raised with no scan made
run_screening_filter_resolves_first(registry, screening_config, post_filter, post_filter_context, scans) ==
    IF resolve_post_filter(registry, post_filter).kind = "raise"
    THEN Ran(resolve_post_filter(registry, post_filter), <<>>,
             screening_config,
             Stage(resolve_post_filter(registry, post_filter), <<>>, <<>>,
                   <<post_filter.name>>, screening_config.parameters, NoRet))
    ELSE IF scans[Len(scans)].ret.kind = "raise"
    THEN Ran(scans[Len(scans)].ret, scans, screening_config,
             NoStage(scans[Len(scans)].ret, screening_config.parameters))
    ELSE run_screening_return(screening_config, scans,
             post_filter_stage(registry, scans[Len(scans)].ret.value,
                               screening_config, post_filter,
                               post_filter_context))

\* run_screening from the end of the scan
run_screening_filter(registry, screening_config, post_filter, post_filter_context, scans) ==
    IF scans[Len(scans)].ret.kind = "raise"
    THEN Ran(scans[Len(scans)].ret, scans, screening_config,
             NoStage(scans[Len(scans)].ret, screening_config.parameters))
    ELSE run_screening_return(screening_config, scans,
             post_filter_stage(registry, scans[Len(scans)].ret.value,
                               screening_config, post_filter,
                               post_filter_context))

\* run_screening from the scan, with the resolved configuration
run_screening_scan(registry, provider, screening_config, market, sort_by, sort_order, post_filter, post_filter_context, responses, now) ==
    run_screening_filter(registry, screening_config, post_filter,
        post_filter_context,
        scan_stage(provider, screening_config, market, sort_by, sort_order,
                   responses, now))

\* run_screening from the registry lookups, given their outcomes
run_screening_resolved(registry, provider, market, sort_by, sort_order, post_filter, post_filter_context, responses, now, valid, parsed_params, provider_instance, found) ==
    IF valid.kind = "raise"
    THEN Ran(valid, <<>>, NoCall, NoStage(valid, EmptyDict))
    ELSE IF provider_instance.kind = "raise"
    THEN Ran(provider_instance, <<>>, NoCall,
             NoStage(provider_instance, EmptyDict))
    ELSE IF found.kind = "raise"
    THEN Ran(found, <<>>, NoCall, NoStage(found, EmptyDict))
    ELSE run_screening_scan(registry, provider,
             apply_parameter_overrides(found.value, parsed_params),
             market, sort_by, sort_order, post_filter, post_filter_context,
             responses, now)

\* The finished run is kept together with the dictionaries of its first
\* lines: the map given to apply_parameter_overrides, if the run got that
\* far, and the caller's parameters, which parsed_params.update(parameters)
\* only reads
run_screening(registry, configs, provider, config, market, parameters, parameter_string, sort_by, sort_order, post_filter, post_filter_context, responses, now) ==
    [run_screening_resolved(registry, provider, market, sort_by,
         sort_order, post_filter, post_filter_context, responses, now,
         validate_required_params(provider, config),
         merge_parameters(parameters, parameter_string),
         create_screener_provider(provider),
         get_screening_config(configs, provider, config))
     EXCEPT !.trace =
        [overrides |-> IF @.config = NoCall THEN NoRet
                       ELSE Return(merge_parameters(parameters,
                                                    parameter_string)),
         caller_parameters |-> parameters] @@ @]

(***************************************************************************)
(* Bounds of the enumerated inputs                                         *)
(***************************************************************************)
MaxPrice == 3        \* open, high, low, close range over 0..MaxPrice
MaxVolume == 2       \* volume and average volume range over 1..MaxVolume
MaxAtr == 1          \* ATR ranges over 1..MaxAtr
MaxDefects == 1      \* cells of a sampled response row that are ill-typed
MaxRows == 2         \* rows of a multi-row response

\* The dictionary holding the entries of m whose value is not None
DropNone(m) == [k \in {j \in DOMAIN m : ~is_None(m[j])} |-> m[k]]

\* None stands for a constructor argument or raw_data key left out
FilterPrices == {None} \cup {Num(i) : i \in 0..MaxPrice}
FilterVolumes == {None} \cup {Num(i) : i \in 1..MaxVolume}
FilterAtrs == {None} \cup {Num(i) : i \in 1..MaxAtr}

\* Contexts given to the filter: none of its keys, each key alone, all three
\* (atr_factor 2.0, volume_factor 1.0, candle_body_pct 50.0), and a negative
\* atr_factor (-1.0), with which any amplitude passes the ATR test
FilterContexts ==
    {EmptyDict, [atr_factor |-> 20], [volume_factor |-> 10],
     [candle_body_pct |-> 500],
     [atr_factor |-> 20, volume_factor |-> 10, candle_body_pct |-> 500],
     [atr_factor |-> -10]}

(***************************************************************************)
(* HTTP responses handed to the adapters                                   *)
(***************************************************************************)
RECURSIVE SubsetsUpTo(_, _)
\* the subsets of S with at most k elements
SubsetsUpTo(S, k) ==
    IF k = 0 THEN {{}}
    ELSE LET P == SubsetsUpTo(S, k - 1)
         IN  P \cup {T \cup {x} : T \in P, x \in S}

\* a well-typed cell for column i: a number in a numeric column, a string
\* elsewhere (and for a cell past the last column)
SampleCell(columns, floats, i) ==
    IF i \in DOMAIN columns /\ \E k \in DOMAIN floats : floats[k] = columns[i]
    THEN Num(i)
    ELSE IF i \in DOMAIN columns THEN Str(columns[i]) ELSE Str("extra")

\* what an ill-typed cell holds: null, text, or a list with a null element
DefectValues == {None, Str("n/a"), Lst(<<Str("a"), None, Str("b")>>)}

\* Rows of every length from 0 to one more than the column count, with at
\* most MaxDefects cells replaced by a value of DefectValues
SampledRows(columns, floats) ==
    {[i \in 1..len |-> IF i \in DOMAIN f THEN f[i]
                       ELSE SampleCell(columns, floats, i)] :
        len \in 0..(Len(columns) + 1),
        f \in UNION {[S -> DefectValues] :
                        S \in SubsetsUpTo(1..(Len(columns) + 1), MaxDefects)}}

\* a full well-typed row with the given symbol and close
CleanRow(columns, floats, symbol_col, symbol, close) ==
    [i \in 1..Len(columns) |->
        IF columns[i] = symbol_col THEN Str(symbol)
        ELSE IF columns[i] = "close" THEN Num(close)
        ELSE SampleCell(columns, floats, i)]

\* A few rows for multi-row responses: two clean ones, a five-cell one, one
\* whose close is a list, one whose symbol is null
FewRows(columns, floats, symbol_col) ==
    LET aapl == CleanRow(columns, floats, symbol_col, "AAPL", 150)
        msft == CleanRow(columns, floats, symbol_col, "MSFT", 100)
    IN  {aapl, msft, SubSeq(aapl, 1, 5),
         [i \in DOMAIN msft |-> IF columns[i] = "close"
                                THEN Lst(<<Num(100)>>) ELSE msft[i]],
         [i \in DOMAIN aapl |-> IF columns[i] = symbol_col
                                THEN None ELSE aapl[i]]}

SeqsUpTo(S, n) == UNION {[1..k -> S] : k \in 0..n}

Response(status_code, data) ==
    [status_code |-> status_code, data |-> data,
     totalCount |-> IF data.t = "list" THEN Len(data.l) ELSE 0]

\* error statuses, a null "data", and every response of up to MaxRows rows
\* of FewRows
FewResponses(columns, floats, symbol_col) ==
    {Response(400, None), Response(500, None), Response(200, None)}
    \cup {Response(200, Lst(rows)) :
            rows \in SeqsUpTo(FewRows(columns, floats, symbol_col), MaxRows)}

\* one-row responses over SampledRows
SampledResponses(columns, floats) ==
    {Response(200, Lst(<<d>>)) : d \in SampledRows(columns, floats)}

Configs == {tv_rsi2, tv_elephant_bars, tv_crypto_basic, finviz_rsi2}

\* A filter clause that carries no "value"
BareFilter(field, operation) == [field |-> field, operation |-> operation]

\* User-defined configurations that differ in how they treat the adapters'
\* volume-style field: a clause with its own value, a clause without one
\* with and without provider_config's volume_threshold, and no such clause
VolumeConfigs ==
    {ScreeningConfig("volume_explicit", "tv", EmptyDict,
         [volume_threshold |-> Num(500000)],
         <<Filter("change", "greater", Num(5)),
           Filter("volume", "greater", Num(700000))>>),
     ScreeningConfig("volume_bare", "tv", EmptyDict, EmptyDict,
         <<BareFilter("volume", "egreater"),
           Filter("change", "greater", Num(5))>>),
     ScreeningConfig("volume_threshold", "tv", EmptyDict,
         [volume_threshold |-> Num(500000)],
         <<BareFilter("volume", "greater")>>),
     ScreeningConfig("crypto_volume_bare", "tv_crypto", EmptyDict, EmptyDict,
         <<BareFilter("24h_vol_cmc", "greater")>>),
     ScreeningConfig("crypto_volume_threshold", "tv_crypto", EmptyDict,
         [volume_threshold |-> Num(500000)],
         <<Filter("close", "greater", Num(1)),
           BareFilter("24h_vol_cmc", "egreater")>>),
     ScreeningConfig("crypto_no_volume", "tv_crypto", EmptyDict, EmptyDict,
         <<Filter("close", "greater", Num(1))>>)}

\* the configurations handed to the adapters' scan
ScanConfigs == Configs \cup VolumeConfigs
Markets == {"america", "australia", "america-sp-spx", "atlantis"}
Timestamps == {"2024-01-01T00:00:00"}

MaxThreads == 2      \* threads looking up the post-filter registry at once

Threads == 1..MaxThreads

(***************************************************************************)
(* Calls                                                                   *)
(***************************************************************************)
Init ==
    /\ pc = "idle"
    /\ call = NoCall
    /\ ret = NoRet
    /\ http = <<>>
    /\ trace = NoTrace
    /\ post_filters = [name \in {"elephant_bars"} |-> "elephant_bars_filter"]
    /\ manager = ScreeningConfigManager
    /\ context_printed = FALSE
    /\ threads = [t \in Threads |->
                     [pc |-> "idle", op |-> "none", name |-> "", ret |-> NoRet]]
    /\ screening_configs =
          [key \in {<<c.provider, c.name>> : c \in Configs} |->
              CHOOSE c \in Configs : <<c.provider, c.name>> = key]

\* The caller takes the outcome; the next call may start.
Resume ==
    /\ pc = "returned"
    /\ pc' = "idle"
    /\ call' = NoCall
    /\ ret' = NoRet
    /\ http' = <<>>
    /\ trace' = NoTrace
    /\ UNCHANGED <<post_filters, screening_configs, manager, context_printed,
                 threads>>

\* elephant_bars_filter(stock, context) on a record built by the StockData
\* constructor, as the tests build it; cleared names a core field the caller
\* has set to None after construction ("" for none).
ElephantBarsCall ==
    /\ pc = "idle"
    /\ \E o \in FilterPrices, h \in FilterPrices, l \in FilterPrices,
          c \in FilterPrices, v \in FilterVolumes, a \in FilterAtrs,
          av \in FilterVolumes, cleared \in {"", "price", "volume"},
          context \in FilterContexts :
          LET raw == DropNone([open |-> o, high |-> h, low |-> l, ATR |-> a,
                                average_volume_30d_calc |-> av])
              built == StockData(Str("AAPL"), None, c, v, None, None, None,
                                 None, None, raw)
              stock == IF cleared = "" THEN built
                       ELSE [built EXCEPT ![cleared] = None]
              done == elephant_bars_filter_call(context_printed, stock,
                                                context)
          IN  /\ call' = [op |-> "elephant_bars_filter", stock |-> stock,
                          context |-> context]
              /\ ret' = [kind |-> "return", value |-> done.ret]
              /\ context_printed' = done.context_printed
    /\ pc' = "returned"
    /\ UNCHANGED <<http, trace, post_filters, screening_configs, manager,
                 threads>>

\* elephant_bars_filter(stock, context) as one of a series of calls in one
\* process; banner tells whether this call printed the context banner. The
\* records are as an adapter with the bar columns would build them: every
\* core field a value, the bar fields in raw_data, ATR present or not
RepeatedFilterCall ==
    /\ pc = "idle"
    /\ \E o \in 0..MaxPrice, h \in 0..MaxPrice, l \in 0..MaxPrice,
          c \in 0..MaxPrice, v \in 1..MaxVolume, av \in 1..MaxVolume,
          a \in FilterAtrs, context \in FilterContexts :
       \E stock \in
             {StockData(Str("AAPL"), None, Num(c), Num(v), None, None, None,
                        None, None,
                        DropNone([open |-> Num(o), high |-> Num(h),
                                  low |-> Num(l), ATR |-> a,
                                  average_volume_30d_calc |-> Num(av)]))} :
          \E done \in {elephant_bars_filter_call(context_printed, stock,
                                                 context)} :
              /\ call' = [op |-> "elephant_bars_filter", stock |-> stock,
                          context |-> context, banner |-> done.banner]
              /\ ret' = [kind |-> "return", value |-> done.ret]
              /\ context_printed' = done.context_printed
    /\ pc' = "returned"
    /\ UNCHANGED <<http, trace, post_filters, screening_configs, manager,
                 threads>>

NextFlag == RepeatedFilterCall \/ Resume

SpecFlag == Init /\ [][NextFlag]_vars

\* stock.get_field(field_name), on records with raw_data empty, holding
\* provider fields, and holding keys that are also core field names with
\* other values
GetFieldCall ==
    /\ pc = "idle"
    /\ \E p \in 0..MaxPrice,
          raw \in {None, EmptyDict, [ATR |-> Num(2), open |-> Num(1)],
                   [price |-> Num(99), symbol |-> Str("other"),
                    sector |-> None, ATR |-> Num(2)]},
          field_name \in core_fields
                            \cup {"ATR", "open", "high", "raw_data", ""} :
       \E stock \in {StockData(Str("AAPL"), None, Num(p), Num(1), None, None,
                               Str("Tech"), None, None, raw)} :
          /\ call' = [op |-> "get_field", stock |-> stock,
                      field_name |-> field_name]
          /\ ret' = Return(get_field(stock, field_name))
    /\ pc' = "returned"
    /\ UNCHANGED <<http, trace, post_filters, screening_configs, manager,
                 context_printed, threads>>

\* TradingViewProvider.scan(config, market) with the HTTP response it gets
TVScanCall ==
    /\ pc = "idle"
    /\ \E in \in ({tv_rsi2} \X {"america"}
                    \X SampledResponses(tv_columns, tv_float_columns))
                 \cup (ScanConfigs \X Markets
                    \X FewResponses(tv_columns, tv_float_columns, "name")),
          now \in Timestamps :
          LET done == tv_scan(in[1], in[2], "close", "asc", in[3], now)
          IN  /\ call' = [op |-> "scan", adapter |-> "tv", config |-> in[1],
                          market |-> in[2], response |-> in[3]]
              /\ ret' = done.ret
              /\ http' = done.http
    /\ pc' = "returned"
    /\ UNCHANGED <<trace, post_filters, screening_configs, manager,
                 context_printed, threads>>

\* TradingViewCryptoProvider.scan(config) with the HTTP response it gets
CryptoScanCall ==
    /\ pc = "idle"
    /\ \E in \in ({tv_crypto_basic} \X {"crypto"}
                    \X SampledResponses(crypto_columns, crypto_float_columns))
                 \cup (ScanConfigs \X {"crypto"}
                    \X FewResponses(crypto_columns, crypto_float_columns,
                                    "base_currency")),
          now \in Timestamps :
          LET done == crypto_scan(in[1], in[2], "crypto_total_rank", "asc",
                                  in[3], now)
          IN  /\ call' = [op |-> "scan", adapter |-> "tv_crypto",
                          config |-> in[1], market |-> in[2],
                          response |-> in[3]]
              /\ ret' = done.ret
              /\ http' = done.http
    /\ pc' = "returned"
    /\ UNCHANGED <<trace, post_filters, screening_configs, manager,
                 context_printed, threads>>

\* FinvizProvider.scan(config, market)
FinvizScanCall ==
    /\ pc = "idle"
    /\ \E config \in Configs, market \in Markets, now \in Timestamps :
          LET done == finviz_scan(config, market, now)
          IN  /\ call' = [op |-> "scan", adapter |-> "finviz",
                          config |-> config, market |-> market,
                          response |-> Response(200, None)]
              /\ ret' = done.ret
              /\ http' = done.http
    /\ pc' = "returned"
    /\ UNCHANGED <<trace, post_filters, screening_configs, manager,
                 context_printed, threads>>

\* The arguments of the run_screening calls that are tried.  The first group
\* varies the post-filter and the responses for one configuration; the
\* second varies provider, configuration, market and the parameter
\* overrides.  responses[1] answers the first request and responses[2] the
\* second, if the call makes one.
ServiceFilters ==
    {NoFilter, NamedFilter("elephant_bars"), NamedFilter("no_such_filter"),
     DirectFilter("keep_all"), DirectFilter("reject_all"),
     DirectFilter("price_filter")}

ServiceContexts == {None, EmptyDict, [min_price |-> 120, rsi_level |-> 99]}

RetryResponses ==
    {Response(500, None),
     Response(200, Lst(<<CleanRow(tv_columns, tv_float_columns, "name",
                                  "GOOGL", 130)>>))}

ServiceArgs(provider, config, market, parameters, parameter_string, post_filter, post_filter_context, responses) ==
    [provider |-> provider, config |-> config, market |-> market,
     parameters |-> parameters, parameter_string |-> parameter_string,
     post_filter |-> post_filter,
     post_filter_context |-> post_filter_context, responses |-> responses]

\* The first runs try the elephant_bars post-filter, also on a 27-cell row:
\* the 22 columns of a clean row, then the five bar values (average volume
\* 1, ATR 1, high 151, low 99, open 100) an adapter asking for the
\* elephant_bars extra columns would get; with close 150 and volume 14 they
\* make an elephant bar
ServiceCalls ==
    {ServiceArgs("tv", c, "america", None, <<>>,
                 NamedFilter("elephant_bars"), None, <<r1, r1>>) :
        c \in {"rsi2", "elephant_bars"},
        r1 \in FewResponses(tv_columns, tv_float_columns, "name")
                  \cup {Response(200, Lst(<<
                            CleanRow(tv_columns, tv_float_columns, "name",
                                     "AAPL", 150)
                                \o <<Num(1), Num(1), Num(151), Num(99),
                                      Num(100)>> >>))}}
    \cup
    {ServiceArgs("tv", "rsi2", "america", None, <<>>, f, c, <<r1, r2>>) :
        f \in ServiceFilters, c \in ServiceContexts,
        r1 \in FewResponses(tv_columns, tv_float_columns, "name"),
        r2 \in RetryResponses}
    \cup
    {ServiceArgs(pc_[1], pc_[2], m, p, ps, f, None, <<r1, r1>>) :
        pc_ \in {<<"tv", "rsi2">>, <<"tv", "elephant_bars">>,
                 <<"tv_crypto", "crypto_basic">>, <<"finviz", "rsi2">>,
                 <<"", "rsi2">>, <<"tv", "">>, <<"tv", "no_such_config">>,
                 <<"no_such_provider", "rsi2">>},
        m \in {"america", "atlantis"},
        p \in {None, [rsi_level |-> 9]},
        ps \in {<<>>, <<<<"rsi_level", 7>>, <<"min_price", 110>>>>},
        f \in {NoFilter, DirectFilter("price_filter")},
        r1 \in {Response(200, Lst(<<
                    CleanRow(tv_columns, tv_float_columns, "name", "AAPL", 150),
                    CleanRow(tv_columns, tv_float_columns, "name", "MSFT", 100)
                >>))}}

\* ScreenerService.run_screening(provider, config, market, ...). A run
\* calls elephant_bars_filter, which sets _context_printed, when the
\* predicate resolved to it and the provider's result had a record
RunScreeningCall ==
    /\ pc = "idle"
    /\ \E args \in ServiceCalls, now \in Timestamps :
          \E ran \in {run_screening(post_filters, screening_configs,
                        args.provider, args.config, args.market,
                        args.parameters, args.parameter_string, "close", "asc",
                        args.post_filter, args.post_filter_context,
                        args.responses, now)} :
              /\ call' = [op |-> "run_screening"] @@ args
              /\ ret' = ran.ret
              /\ http' = ran.http
              /\ trace' = ran.trace
              /\ context_printed' =
                    (context_printed
                        \/ /\ Len(ran.trace.verdicts) > 0
                           /\ resolve_post_filter(post_filters,
                                                  args.post_filter)
                                 = Return("elephant_bars_filter"))
    /\ pc' = "returned"
    /\ UNCHANGED <<post_filters, screening_configs, manager, threads>>

NextService == RunScreeningCall \/ Resume

SpecService == Init /\ [][NextService]_vars

\* The names and predicates the registry calls are tried with
RegistryNames == {"elephant_bars", "test_custom", "test_dup", "nonexistent"}
Predicates == {"keep_all", "reject_all", "price_filter"}

\* register_post_filter(name, fn)
RegisterPostFilterCall ==
    /\ pc = "idle"
    /\ \E name \in RegistryNames, fn \in Predicates :
          \E done \in {register_post_filter(post_filters, name, fn)} :
              /\ call' = [op |-> "register_post_filter", name |-> name,
                          fn |-> fn, registry |-> post_filters]
              /\ ret' = done.ret
              /\ post_filters' = done.registry
    /\ pc' = "returned"
    /\ UNCHANGED <<http, trace, screening_configs, manager, context_printed,
                 threads>>

\* get_post_filter(name)
GetPostFilterCall ==
    /\ pc = "idle"
    /\ \E name \in RegistryNames :
          /\ call' = [op |-> "get_post_filter", name |-> name,
                      registry |-> post_filters]
          /\ ret' = get_post_filter(post_filters, name)
    /\ pc' = "returned"
    /\ UNCHANGED <<http, trace, post_filters, screening_configs, manager,
                 context_printed, threads>>

NextRegistry == RegisterPostFilterCall \/ GetPostFilterCall \/ Resume

SpecRegistry == Init /\ [][NextRegistry]_vars

(***************************************************************************)
(* Concurrent lookups of the post-filter registry.  A thread runs          *)
(* get_post_filter or list_post_filters one dictionary access at a time;   *)
(* registrations are serial: they run while no thread is inside a lookup,  *)
(* and no lookup starts while one is in progress.                          *)
(***************************************************************************)
\* a registration at startup or between lookups
SerialRegisterCall ==
    /\ \A t \in Threads : threads[t].pc = "idle"
    /\ RegisterPostFilterCall

\* thread t calls get_post_filter(name) or list_post_filters()
LookupBegin(t) ==
    /\ pc = "idle"
    /\ threads[t].pc = "idle"
    /\ \E name \in RegistryNames, op \in {"get_post_filter", "list_post_filters"} :
          threads' = [threads EXCEPT ![t] =
              [pc |-> "called", op |-> op,
               name |-> IF op = "get_post_filter" THEN name ELSE "",
               ret |-> NoRet]]
    /\ UNCHANGED <<pc, call, ret, http, trace, post_filters,
                   screening_configs, manager, context_printed>>

\* if name not in _post_filters
LookupTest(t) ==
    /\ threads[t].pc = "called"
    /\ threads[t].op = "get_post_filter"
    /\ \E tested \in {lookup_test(post_filters, threads[t].name)} :
          /\ threads' = [threads EXCEPT ![t].pc =
                            IF tested.found THEN "found" ELSE "missing"]
          /\ post_filters' = tested.registry
    /\ UNCHANGED <<pc, call, ret, http, trace, screening_configs, manager,
                   context_printed>>

\* return _post_filters[name]
LookupFetch(t) ==
    /\ threads[t].pc = "found"
    /\ threads' = [threads EXCEPT ![t] =
          [@ EXCEPT !.pc = "done",
                    !.ret = lookup_fetch(post_filters, threads[t].name)]]
    /\ UNCHANGED <<pc, call, ret, http, trace, post_filters,
                   screening_configs, manager, context_printed>>

\* raise ValueError listing the registered names
LookupMissing(t) ==
    /\ threads[t].pc = "missing"
    /\ threads' = [threads EXCEPT ![t] =
          [@ EXCEPT !.pc = "done",
                    !.ret = lookup_missing(post_filters, threads[t].name)]]
    /\ UNCHANGED <<pc, call, ret, http, trace, post_filters,
                   screening_configs, manager, context_printed>>

\* return list(_post_filters.keys())
LookupList(t) ==
    /\ threads[t].pc = "called"
    /\ threads[t].op = "list_post_filters"
    /\ threads' = [threads EXCEPT ![t] =
          [@ EXCEPT !.pc = "done",
                    !.ret = list_post_filters(post_filters)]]
    /\ UNCHANGED <<pc, call, ret, http, trace, post_filters,
                   screening_configs, manager, context_printed>>

\* the thread's caller takes the outcome
LookupEnd(t) ==
    /\ threads[t].pc = "done"
    /\ threads' = [threads EXCEPT ![t] =
          [pc |-> "idle", op |-> "none", name |-> "", ret |-> NoRet]]
    /\ UNCHANGED <<pc, call, ret, http, trace, post_filters,
                   screening_configs, manager, context_printed>>

NextLookup ==
    \/ SerialRegisterCall
    \/ Resume
    \/ \E t \in Threads : LookupBegin(t)
    \/ \E t \in Threads : LookupTest(t)
    \/ \E t \in Threads : LookupFetch(t)
    \/ \E t \in Threads : LookupMissing(t)
    \/ \E t \in Threads : LookupList(t)
    \/ \E t \in Threads : LookupEnd(t)

SpecLookup == Init /\ [][NextLookup]_vars

(***************************************************************************)
(* Configuration documents handed to the loader                            *)
(***************************************************************************)
MaxEntries == 2      \* configuration entries of a multi-config document

\* Entries of external documents: complete ones with and without the
\* metadata keys, two under the name rsi2 for different providers, one with
\* a post_filter key inside its own parameters, a second one for (tv, rsi2),
\* and entries lacking required fields with and without metadata
ConfigEntries ==
    {[name |-> "rsi2", provider |-> "tv",
      filters |-> <<Filter("volume", "greater", Num(1))>>,
      post_filter |-> "elephant_bars",
      post_filter_context |-> [atr_factor |-> 20]],
     [name |-> "rsi2", provider |-> "finviz",
      filters |-> <<Filter("ta_rsi", "under", Num(5))>>],
     [name |-> "momentum", provider |-> "tv",
      filters |-> <<Filter("change", "greater", Num(5))>>,
      parameters |-> [post_filter |-> 1, rsi_level |-> 5],
      provider_config |-> [volume_threshold |-> Num(500000)],
      description |-> "Momentum breakout",
      post_filter_context |-> [volume_factor |-> 30]],
     [name |-> "rsi2", provider |-> "tv",
      filters |-> <<Filter("close", "greater", Num(1))>>,
      post_filter |-> "keep_all"],
     [provider |-> "tv",
      filters |-> <<Filter("volume", "greater", Num(1))>>,
      post_filter |-> "elephant_bars"],
     [name |-> "no_provider",
      filters |-> <<Filter("volume", "greater", Num(1))>>],
     [provider |-> "finviz", description |-> "neither name nor filters"]}

\* a missing file, a file of another format, and as .json the documents:
\* single-config ones and multi-config ones of up to MaxEntries entries
ConfigFiles ==
    {[exists |-> e, suffix |-> x, data |-> d] :
        e \in {FALSE}, x \in {".json"},
        d \in {[configurations |-> <<>>]}}
    \cup {[exists |-> e, suffix |-> x, data |-> d] :
        e \in {TRUE}, x \in {".txt", ".yaml", ".yml"},
        d \in {[configurations |-> <<>>]}}
    \cup {[exists |-> e, suffix |-> x, data |-> d] :
        e \in {TRUE}, x \in {".json"},
        d \in ConfigEntries
                \cup {[configurations |-> entries] :
                         entries \in SeqsUpTo(ConfigEntries, MaxEntries)}}

\* A loader call is remembered by the document it was given (the file's,
\* for a file), whether that document could be read, and the configuration
\* registry at the call.
\* config_loader.load_from_dict(config_data), on the documents of the files
LoadFromDictCall ==
    /\ pc = "idle"
    /\ \E config_data \in {file.data : file \in
                                {f \in ConfigFiles : f.suffix = ".json"}} :
          /\ call' = [op |-> "load_from_dict", data |-> config_data,
                      readable |-> TRUE, registry |-> screening_configs]
          /\ ret' = load_from_dict(config_data)
    /\ pc' = "returned"
    /\ UNCHANGED <<http, trace, post_filters, screening_configs, manager,
                 context_printed, threads>>

\* config_loader.load_from_file(file_path)
LoadFromFileCall ==
    /\ pc = "idle"
    /\ \E file \in ConfigFiles :
          /\ call' = [op |-> "load_from_file",
                          data |-> file.data,
                          readable |->
                              read_config_file(file).kind = "return",
                          registry |-> screening_configs]
          /\ ret' = load_from_file(file)
    /\ pc' = "returned"
    /\ UNCHANGED <<http, trace, post_filters, screening_configs, manager,
                 context_printed, threads>>

\* config_loader.load_from_file_with_metadata(file_path)
LoadFromFileWithMetadataCall ==
    /\ pc = "idle"
    /\ \E file \in ConfigFiles :
          /\ call' = [op |-> "load_from_file_with_metadata",
                          data |-> file.data,
                          readable |->
                              read_config_file(file).kind = "return",
                          registry |-> screening_configs]
          /\ ret' = load_from_file_with_metadata(file)
    /\ pc' = "returned"
    /\ UNCHANGED <<http, trace, post_filters, screening_configs, manager,
                 context_printed, threads>>

\* config_loader.register_configs_from_file(file_path)
RegisterConfigsFromFileCall ==
    /\ pc = "idle"
    /\ \E file \in ConfigFiles :
          \E done \in {register_configs_from_file(screening_configs, file)} :
              /\ call' = [op |-> "register_configs_from_file",
                          data |-> file.data,
                          readable |->
                              read_config_file(file).kind = "return",
                          registry |-> screening_configs]
              /\ ret' = done.ret
              /\ screening_configs' = done.registry
    /\ pc' = "returned"
    /\ UNCHANGED <<http, trace, post_filters, manager, context_printed,
                 threads>>

\* config_loader.register_configs_from_file_with_metadata(file_path)
RegisterConfigsFromFileWithMetadataCall ==
    /\ pc = "idle"
    /\ \E file \in ConfigFiles :
          \E done \in {register_configs_from_file_with_metadata(
                            screening_configs, file)} :
              /\ call' = [op |-> "register_configs_from_file_with_metadata",
                          data |-> file.data,
                          readable |->
                              read_config_file(file).kind = "return",
                          registry |-> screening_configs]
              /\ ret' = done.ret
              /\ screening_configs' = done.registry
    /\ pc' = "returned"
    /\ UNCHANGED <<http, trace, post_filters, manager, context_printed,
                 threads>>

NextLoader ==
    LoadFromDictCall \/ LoadFromFileCall \/ LoadFromFileWithMetadataCall
        \/ RegisterConfigsFromFileCall
        \/ RegisterConfigsFromFileWithMetadataCall \/ Resume

SpecLoader == Init /\ [][NextLoader]_vars

\* The names get_market_config is tried with: canonical names, legacy
\* aliases, and names that are neither
LookupNames ==
    {market_names[i] : i \in DOMAIN market_names} \cup DOMAIN legacy_configs
        \cup {"atlantis", "", "AMERICA", "crypto", "america-sp"}

\* ScreeningConfigManager.get_market_config(config_name)
GetMarketConfigCall ==
    /\ pc = "idle"
    /\ \E config_name \in LookupNames :
          \E done \in {manager_get_market_config(manager, config_name)} :
              /\ call' = [op |-> "get_market_config",
                          config_name |-> config_name, manager |-> manager]
              /\ ret' = done.ret
              /\ manager' = done.manager
    /\ pc' = "returned"
    /\ UNCHANGED <<http, trace, post_filters, screening_configs, context_printed,
                 threads>>

NextScan ==
    TVScanCall \/ CryptoScanCall \/ FinvizScanCall \/ GetMarketConfigCall
        \/ Resume

SpecScan == Init /\ [][NextScan]_vars

NextFilter == ElephantBarsCall \/ GetFieldCall \/ Resume

SpecFilter == Init /\ [][NextFilter]_vars

(***************************************************************************)
(* Claims about elephant_bars_filter (SpecFilter)                          *)
(***************************************************************************)
FilterReturned == pc = "returned" /\ call.op = "elephant_bars_filter"

ElephantRawFields == {"open", "high", "low", "ATR", "average_volume_30d_calc"}

\* The numeric value of each input of the bar held by the last filter call
BarOpen == call.stock.raw_data["open"].n
BarHigh == call.stock.raw_data["high"].n
BarLow == call.stock.raw_data["low"].n
BarAtr == call.stock.raw_data["ATR"].n
BarAvgVolume == call.stock.raw_data["average_volume_30d_calc"].n
BarClose == call.stock.price.n
BarVolume == call.stock.volume.n
CtxAtrFactor ==
    IF "atr_factor" \in DOMAIN call.context
    THEN call.context["atr_factor"] ELSE DefaultAtrFactor
CtxVolumeFactor ==
    IF "volume_factor" \in DOMAIN call.context
    THEN call.context["volume_factor"] ELSE DefaultVolumeFactor
CtxCandleBodyPct ==
    IF "candle_body_pct" \in DOMAIN call.context
    THEN call.context["candle_body_pct"] ELSE DefaultCandleBodyPct

BarAllPresent ==
    /\ ElephantRawFields \subseteq DOMAIN call.stock.raw_data
    /\ ~is_None(call.stock.price)
    /\ ~is_None(call.stock.volume)

\* (high - low) > ATR * atr_factor
BarAmplitudeOk == (BarHigh - BarLow) * Tenths > BarAtr * CtxAtrFactor
\* volume * volume_factor > average_volume_30d_calc
BarVolumeOk == BarVolume * CtxVolumeFactor > BarAvgVolume * Tenths
\* body_pct > candle_body_pct
BarBodyOk ==
    IF BarHigh - BarLow > 0
    THEN Abs(BarClose - BarOpen) * 100 * Tenths
            > CtxCandleBodyPct * (BarHigh - BarLow)
    ELSE 0 > CtxCandleBodyPct

C2_MissingFieldRejected ==
    (FilterReturned /\ ~BarAllPresent) =>
        (ret.kind = "return" /\ ret.value = FALSE)

\* A bar lacking only ATR, which with ATR = 0 would pass every test, has
\* been rejected.
C2_Witness ==
    /\ FilterReturned
    /\ DOMAIN call.stock.raw_data = ElephantRawFields \ {"ATR"}
    /\ ~is_None(call.stock.price) /\ ~is_None(call.stock.volume)
    /\ BarHigh - BarLow > 0
    /\ BarVolumeOk /\ BarBodyOk /\ BarOpen # BarClose
    /\ ret.kind = "return" /\ ret.value = FALSE

(***************************************************************************)
(* Claims about the adapters' scan (SpecScan)                              *)
(***************************************************************************)
ScanReturned == pc = "returned" /\ call.op = "scan"

\* the scan got past its provider check and market lookup to the request
ScanReachesRequest ==
    /\ call.config.provider = call.adapter
    /\ call.adapter = "tv" =>
          call.market \in {market_names[i] : i \in DOMAIN market_names}
                             \cup DOMAIN legacy_configs

\* C6: a scan of any of the three adapters with a configuration of another
\* provider raises the incompatibility error, having issued no HTTP request
\* and built no result.
C6_MismatchBeforeRequest ==
    (ScanReturned /\ call.config.provider # call.adapter) =>
        /\ ret.kind = "raise"
        /\ ret.type = "ValueError"
        /\ ret.message \in {"is not compatible with TradingView provider",
                            "is not compatible with TradingViewCrypto provider",
                            "is not compatible with Finviz provider"}
        /\ Len(http) = 0

\* The equities adapter, handed a Finviz configuration and a response that
\* would otherwise parse, has raised without a request.
C6_Witness ==
    /\ ScanReturned
    /\ call.adapter = "tv" /\ call.config.provider = "finviz"
    /\ call.market = "america"
    /\ call.response.status_code = 200 /\ call.response.data.t = "list"
    /\ ret.kind = "raise" /\ http = <<>>

\* C8: an equities or crypto scan that reaches its request and gets a status
\* other than 200 raises an error carrying that status code, returns no
\* result, and has issued exactly one HTTP request.
C8_ErrorStatusRaisesOnce ==
    (ScanReturned /\ call.adapter \in {"tv", "tv_crypto"}
        /\ ScanReachesRequest /\ call.response.status_code # 200) =>
        /\ ret.kind = "raise"
        /\ ret.type = "Exception"
        /\ ret.status_code = call.response.status_code
        /\ Len(http) = 1

\* The crypto adapter has raised on a 500 after its one request.
C8_Witness ==
    /\ ScanReturned
    /\ call.adapter = "tv_crypto"
    /\ call.response.status_code = 500
    /\ ret.kind = "raise" /\ ret.status_code = 500
    /\ Len(http) = 1

\* the column list the scan sent, and the rows it got
SentColumns == http[1].payload.columns
GotRows == call.response.data.l

ScanParsed ==
    /\ ScanReturned
    /\ call.adapter \in {"tv", "tv_crypto"}
    /\ ret.kind = "return"

\* the response column each core field is read from
CoreColumn(adapter, field) ==
    IF adapter = "tv"
    THEN [symbol |-> "name", name |-> "description", price |-> "close",
          volume |-> "volume", change |-> "change",
          market_cap |-> "market_cap_basic", sector |-> "sector",
          exchange |-> "exchange", currency |-> "currency"][field]
    ELSE [symbol |-> "base_currency", name |-> "base_currency_desc",
          price |-> "close", volume |-> "24h_vol_cmc",
          change |-> "24h_close_change|5", market_cap |-> "market_cap_calc",
          sector |-> "crypto_common_categories.tr", exchange |-> "exchange",
          currency |-> "currency"][field]

\* the cell of row d under column col lies past the end of d or is null
CellMissing(d, col) ==
    \A j \in DOMAIN SentColumns :
        SentColumns[j] = col => (j > Len(d) \/ is_None(d[j]))

CoreDefault(field) ==
    IF field \in {"price", "volume", "change", "market_cap"}
    THEN Num(0) ELSE Str("")

\* C9: in every record built from a response row no core field is null, and
\* a core field whose column lies past the end of the row or holds null is
\* 0.0 (numeric field) or "" (string field); no scan raises IndexError.
C9_CoreFieldsDefaulted ==
    /\ ScanReturned => (ret.kind = "raise" => ret.type # "IndexError")
    /\ ScanParsed =>
          \A i \in DOMAIN GotRows : \A field \in core_fields :
              /\ ~is_None(ret.value.data[i][field])
              /\ CellMissing(GotRows[i], CoreColumn(call.adapter, field)) =>
                    ret.value.data[i][field] = CoreDefault(field)

\* C10: the raw_data of every record built from a row d has exactly the keys
\* cols[i] with i < len(d) and d[i] not null, each holding d[i].
C10_RawDataExact ==
    ScanParsed =>
        \A i \in DOMAIN GotRows :
            LET d == GotRows[i]
                raw == ret.value.data[i].raw_data
                present == {j \in DOMAIN SentColumns :
                               j <= Len(d) /\ ~is_None(d[j])}
            IN  /\ DOMAIN raw = {SentColumns[j] : j \in present}
                /\ \A j \in present : raw[SentColumns[j]] = d[j]
                /\ \A k \in DOMAIN raw : ~is_None(raw[k])

\* A row that stops before the last column and holds a null in between has
\* been turned into a record.
C10_Witness ==
    /\ ScanParsed
    /\ Len(GotRows) = 1
    /\ Len(GotRows[1]) = 15
    /\ is_None(GotRows[1][3])
    /\ DOMAIN ret.value.data[1].raw_data
          = {SentColumns[j] : j \in (1..15) \ {3}}

(***************************************************************************)
(* Claims about ScreenerService.run_screening                              *)
(***************************************************************************)
ServiceReturned == pc = "returned" /\ call.op = "run_screening"

\* the call returned a result that went through a post-filter
FilterApplied ==
    /\ ServiceReturned
    /\ ret.kind = "return"
    /\ call.post_filter.tag # "none"

\* what the adapter's scan returned, before the post-filter
ProviderData == trace.provider_result.value.data

\* C3: the data of a post-filtered result is the subsequence, in the original
\* order, of the provider's records for which the predicate returned true,
\* and symbols is as long as data with symbols[i] = data[i].symbol.
C3_FilteredSubsequence ==
    FilterApplied =>
        LET data == ret.value.data
            symbols == ret.value.symbols
            accepted == {i \in DOMAIN ProviderData : trace.verdicts[i]}
        IN  /\ DOMAIN trace.verdicts = DOMAIN ProviderData
            /\ \E at \in [DOMAIN data -> DOMAIN ProviderData] :
                  /\ \A i, j \in DOMAIN data : i < j => at[i] < at[j]
                  /\ {at[i] : i \in DOMAIN data} = accepted
                  /\ \A i \in DOMAIN data : data[i] = ProviderData[at[i]]
            /\ Len(symbols) = Len(data)
            /\ \A i \in DOMAIN data : symbols[i] = data[i].symbol

\* a post-filtered result where the predicate rejected one record and
\* accepted a later one
C3_Witness ==
    /\ FilterApplied
    /\ \E i, j \in DOMAIN trace.verdicts :
          i < j /\ ~trace.verdicts[i] /\ trace.verdicts[j]
    /\ Len(ret.value.data) >= 1

\* C4: after a post-filter the metadata has post_filter_applied true,
\* pre_filter_count the number of records the provider returned,
\* post_filter_count the number of records returned, the latter at most the
\* former; a filter rejecting every record gives a successful result with
\* empty symbols and data and post_filter_count 0.
C4_FilterMetadata ==
    /\ FilterApplied =>
          /\ ret.value.metadata.post_filter_applied = TRUE
          /\ ret.value.metadata.pre_filter_count = Len(ProviderData)
          /\ ret.value.metadata.post_filter_count = Len(ret.value.data)
          /\ ret.value.metadata.post_filter_count
                <= ret.value.metadata.pre_filter_count
    /\ ( /\ ServiceReturned
         /\ call.post_filter = DirectFilter("reject_all")
         /\ trace.provider_result.kind = "return" ) =>
          /\ ret.kind = "return"
          /\ ret.value.symbols = <<>>
          /\ ret.value.data = <<>>
          /\ ret.value.metadata.post_filter_count = 0

\* a filter that rejected every one of two records
C4_Witness ==
    /\ FilterApplied
    /\ call.post_filter = DirectFilter("reject_all")
    /\ Len(ProviderData) = 2
    /\ ret.value.metadata.pre_filter_count = 2

\* C5: the context the predicate gets for every record is the resolved
\* configuration's parameters overlaid with post_filter_context, whose value
\* wins on a shared key, and the resolved configuration's parameters are the
\* same after the overlay.
C5_FilterContext ==
    FilterApplied =>
        LET parameters == trace.config.parameters
            overlay == IF call.post_filter_context = None THEN EmptyDict
                       ELSE call.post_filter_context
            expected == [k \in DOMAIN parameters \cup DOMAIN overlay |->
                            IF k \in DOMAIN overlay THEN overlay[k]
                            ELSE parameters[k]]
        IN  /\ DOMAIN trace.contexts = DOMAIN ProviderData
            /\ \A i \in DOMAIN trace.contexts : trace.contexts[i] = expected
            /\ trace.parameters_after = parameters

\* a predicate called with a context where post_filter_context replaced a
\* parameter of the configuration and added a key
C5_Witness ==
    /\ FilterApplied
    /\ Len(trace.contexts) >= 1
    /\ call.post_filter_context # None
    /\ \E k \in DOMAIN trace.config.parameters :
          /\ k \in DOMAIN call.post_filter_context
          /\ call.post_filter_context[k] # trace.config.parameters[k]
          /\ trace.contexts[1][k] = call.post_filter_context[k]
    /\ \E k \in DOMAIN call.post_filter_context :
          k \notin DOMAIN trace.config.parameters

\* C7: in one run_screening call the adapter's scan body runs at most once
\* and at most one HTTP request is made, whatever the scan raises; a scan
\* that fails is the last attempt and its error reaches the caller.
C7_NoRetries ==
    ServiceReturned =>
        /\ Cardinality({i \in DOMAIN trace.scans : trace.scans[i].body}) <= 1
        /\ Len(http) <= 1
        /\ \A i \in DOMAIN trace.scans :
              (trace.scans[i].body /\ trace.scans[i].kind = "raise") =>
                  /\ i = Len(trace.scans)
                  /\ ret.kind = "raise"

(***************************************************************************)
(* Claims about the request payload (SpecScan)                             *)
(***************************************************************************)
\* a scan of the equities or crypto adapter that posted its request
PayloadSent == ScanReturned /\ Len(http) >= 1

SentFilter == http[1].payload.filter
ConfigClauses == call.config.filters

\* the adapter's volume-style field and the operation of its own clause
VolumeField == IF call.adapter = "tv" THEN "volume" ELSE "24h_vol_cmc"
VolumeOperation == IF call.adapter = "tv" THEN "greater" ELSE "egreater"

TargetsVolume ==
    \E i \in DOMAIN ConfigClauses : ConfigClauses[i].field = VolumeField

VolumeThreshold ==
    IF "volume_threshold" \in DOMAIN call.config.provider_config
    THEN call.config.provider_config["volume_threshold"]
    ELSE IF call.adapter = "tv"
    THEN Num(market_configs[IF call.market \in DOMAIN legacy_configs
                            THEN legacy_configs[call.market]
                            ELSE call.market].default_volume)
    ELSE Num(100000000)

\* C12: a clause on the volume-style field without a value, and the appended
\* clause, carry provider_config's volume_threshold when that key is present
\* and otherwise the market's default volume (equities) or 100,000,000
\* (crypto); a clause on that field with a value of its own keeps it.
C12_VolumeThreshold ==
    PayloadSent =>
        /\ \A i \in DOMAIN ConfigClauses :
              ConfigClauses[i].field = VolumeField =>
                  SentFilter[i].right =
                      IF "value" \in DOMAIN ConfigClauses[i]
                      THEN ConfigClauses[i].value ELSE VolumeThreshold
        /\ ~TargetsVolume =>
              SentFilter[Len(SentFilter)].right = VolumeThreshold

\* an equities payload whose valueless volume clause got the default volume
\* of the market the alias america-sp-spx resolves to
C12_Witness ==
    /\ PayloadSent
    /\ call.adapter = "tv"
    /\ call.market = "america-sp-spx"
    /\ "volume_threshold" \notin DOMAIN call.config.provider_config
    /\ \E i \in DOMAIN ConfigClauses :
          /\ ConfigClauses[i].field = "volume"
          /\ "value" \notin DOMAIN ConfigClauses[i]
          /\ SentFilter[i].right = Num(10000000)

\* C13: a scan with the built-in configuration elephant_bars sends no
\* API-level filters and no symbolset restriction, and asks for the extra
\* columns average_volume_30d_calc, ATR, high, low and open.
C13_ElephantBarsRequest ==
    (PayloadSent /\ call.adapter = "tv" /\ call.config = tv_elephant_bars) =>
        /\ SentFilter = <<>>
        /\ "symbolset" \notin DOMAIN http[1].payload.symbols
        /\ {"average_volume_30d_calc", "ATR", "high", "low", "open"}
              \subseteq {http[1].payload.columns[i] :
                            i \in DOMAIN http[1].payload.columns}

(***************************************************************************)
(* Claims about run_screening's result objects (SpecService)               *)
(***************************************************************************)
FilterKeys == {"post_filter_applied", "pre_filter_count", "post_filter_count"}

\* C14: with post_filter None, run_screening returns the provider's result
\* unchanged, symbols, data and metadata alike, and adds none of the keys
\* post_filter_applied, pre_filter_count, post_filter_count.
C14_NoFilterPassThrough ==
    ( /\ ServiceReturned
      /\ call.post_filter.tag = "none"
      /\ trace.provider_result.kind = "return" ) =>
        /\ ret.kind = "return"
        /\ ret.value = trace.provider_result.value
        /\ ret.value.symbols = trace.provider_result.value.symbols
        /\ ret.value.data = trace.provider_result.value.data
        /\ ret.value.metadata = trace.provider_result.value.metadata
        /\ FilterKeys \cap DOMAIN ret.value.metadata = {}

\* a call without post-filter, but with a post_filter_context, has returned
\* two records
C14_Witness ==
    /\ ServiceReturned
    /\ call.post_filter.tag = "none"
    /\ call.post_filter_context # None
    /\ ret.kind = "return"
    /\ Len(ret.value.data) = 2

\* C15: after run_screening with a post-filter the provider's result is as
\* the scan returned it, and the new result has every metadata key of the
\* provider's result with its value, and the same provider, config_name and
\* timestamp.
C15_ProviderResultKept ==
    FilterApplied =>
        LET provided == trace.provider_result.value
        IN  /\ trace.provider_result_after = provided
            /\ DOMAIN ret.value.metadata
                  = DOMAIN provided.metadata \cup FilterKeys
            /\ \A k \in DOMAIN provided.metadata \ FilterKeys :
                  ret.value.metadata[k] = provided.metadata[k]
            /\ ret.value.provider = provided.provider
            /\ ret.value.config_name = provided.config_name
            /\ ret.value.timestamp = provided.timestamp

\* a post-filter dropped one of the provider's two records, so the new
\* result differs from the provider's
C15_Witness ==
    /\ FilterApplied
    /\ Len(ProviderData) = 2
    /\ Len(ret.value.data) = 1
    /\ ret.value.symbols # trace.provider_result.value.symbols

(***************************************************************************)
(* Claims about the post-filter registry (SpecRegistry)                    *)
(***************************************************************************)
RegisterReturned == pc = "returned" /\ call.op = "register_post_filter"
GetReturned == pc = "returned" /\ call.op = "get_post_filter"

\* C16: registering a name that is already registered raises and leaves the
\* registry as it was, the earlier predicate still bound; a registration of
\* a new name binds it to the given predicate and nothing else changes;
\* get_post_filter raises for an unregistered name, listing the registered
\* names, and returns the bound predicate for a registered one.
C16_RegistryErrors ==
    /\ (RegisterReturned /\ call.name \in DOMAIN call.registry) =>
          /\ ret.kind = "raise"
          /\ post_filters = call.registry
          /\ post_filters[call.name] = call.registry[call.name]
    /\ (RegisterReturned /\ call.name \notin DOMAIN call.registry) =>
          /\ ret.kind = "return"
          /\ DOMAIN post_filters = DOMAIN call.registry \cup {call.name}
          /\ post_filters[call.name] = call.fn
          /\ \A n \in DOMAIN call.registry : post_filters[n] = call.registry[n]
    /\ (GetReturned /\ call.name \notin DOMAIN call.registry) =>
          /\ ret.kind = "raise"
          /\ ret.names = DOMAIN call.registry
          /\ post_filters = call.registry
    /\ (GetReturned /\ call.name \in DOMAIN call.registry) =>
          /\ ret = Return(call.registry[call.name])
          /\ post_filters = call.registry

\* test_dup, bound to one predicate, has been registered again with another
\* and is still bound to the first
C16_Witness ==
    /\ RegisterReturned
    /\ call.name = "test_dup"
    /\ "test_dup" \in DOMAIN call.registry
    /\ call.fn # call.registry["test_dup"]
    /\ ret.kind = "raise"
    /\ post_filters["test_dup"] = call.registry["test_dup"]

(***************************************************************************)
(* Claims about zero-range bars (SpecFilter)                               *)
(***************************************************************************)
\* C17: a record whose high equals its low is rejected by a normal return
\* for every positive candle_body_pct, whatever its other fields and the
\* context are.
C17_ZeroAmplitudeRejected ==
    ( /\ FilterReturned
      /\ {"high", "low"} \subseteq DOMAIN call.stock.raw_data
      /\ call.stock.raw_data["high"] = call.stock.raw_data["low"]
      /\ CtxCandleBodyPct > 0 ) =>
        (ret.kind = "return" /\ ret.value = FALSE)

\* a zero-range bar that passes the ATR test (negative atr_factor) and the
\* volume test and closes above its open has been rejected
C17_Witness ==
    /\ FilterReturned
    /\ BarAllPresent
    /\ BarHigh = BarLow
    /\ BarAmplitudeOk
    /\ BarVolumeOk
    /\ BarOpen < BarClose
    /\ ret.kind = "return" /\ ret.value = FALSE

(***************************************************************************)
(* Claims about market names (SpecScan)                                    *)
(***************************************************************************)
CanonicalMarkets == {"brazil", "australia", "america"}
LegacyAliases ==
    {"brazil-bmfbovespa-ibov", "australia-asx-xko", "america-nasdaq-xnas",
     "america-sp-spx"}

\* C18: a scan of the equities or the Finviz adapter, with a configuration
\* of its own provider and a market name that is neither canonical nor an
\* alias, raises an error listing the canonical market names and returns no
\* result; the equities adapter raises it before any HTTP request.
C18_UnknownMarketRaises ==
    ( /\ ScanReturned
      /\ call.adapter \in {"tv", "finviz"}
      /\ call.config.provider = call.adapter
      /\ call.market \notin CanonicalMarkets \cup LegacyAliases ) =>
        /\ ret.kind = "raise"
        /\ ret.names = <<"brazil", "australia", "america">>
        /\ call.adapter = "tv" => Len(http) = 0

MarketLookupReturned == pc = "returned" /\ call.op = "get_market_config"

\* C19: get_market_config returns the entry named by a canonical name,
\* the entry an alias maps to for a legacy alias (each alias maps to an
\* existing entry), and raises an error listing exactly the canonical names
\* for any other name; the market table and the alias map stay as they were.
C19_MarketLookup ==
    MarketLookupReturned =>
        /\ DOMAIN call.manager.market_configs = CanonicalMarkets
        /\ DOMAIN call.manager.legacy_configs = LegacyAliases
        /\ \A a \in LegacyAliases :
              call.manager.legacy_configs[a] \in CanonicalMarkets
        /\ call.config_name \in CanonicalMarkets =>
              /\ ret = Return(call.manager.market_configs[call.config_name])
              /\ ret.value.name = call.config_name
        /\ call.config_name \in LegacyAliases =>
              /\ ret = Return(call.manager.market_configs[
                                call.manager.legacy_configs[call.config_name]])
              /\ ret.value.name = call.manager.legacy_configs[call.config_name]
        /\ call.config_name \notin CanonicalMarkets \cup LegacyAliases =>
              /\ ret.kind = "raise"
              /\ Len(ret.names) = 3
              /\ {ret.names[i] : i \in DOMAIN ret.names} = CanonicalMarkets
        /\ manager = call.manager

\* the lookup of "atlantis" has raised, listing three names
C19_Witness ==
    /\ MarketLookupReturned
    /\ call.config_name = "atlantis"
    /\ ret.kind = "raise"
    /\ Len(ret.names) = 3

(***************************************************************************)
(* Claims about list-valued cells (SpecScan)                               *)
(***************************************************************************)
\* the cell of row d under column col, None when it lies past the end of d
CellOf(d, col) ==
    IF \E j \in DOMAIN SentColumns : SentColumns[j] = col /\ j <= Len(d)
    THEN d[CHOOSE j \in DOMAIN SentColumns : SentColumns[j] = col]
    ELSE None

\* a 200 response with a list of rows whose cells under the numeric core
\* columns are numbers, nulls or lists
ListsOnlyResponse ==
    /\ ScanReturned
    /\ call.adapter \in {"tv", "tv_crypto"}
    /\ Len(http) >= 1
    /\ call.response.status_code = 200
    /\ call.response.data.t = "list"
    /\ \A i \in DOMAIN GotRows :
          \A field \in {"price", "volume", "change", "market_cap"} :
              CellOf(GotRows[i], CoreColumn(call.adapter, field)).t
                  \in {"num", "null", "list"}

\* C20: a list under a core field's column ends up in that core field as a
\* single string; no core field of a produced record holds a list, and a
\* list never makes the scan fail.
C20_ListsFlattened ==
    ListsOnlyResponse =>
        /\ ret.kind = "return"
        /\ \A i \in DOMAIN GotRows : \A field \in core_fields :
              /\ ret.value.data[i][field].t # "list"
              /\ CellOf(GotRows[i], CoreColumn(call.adapter, field)).t = "list"
                    => ret.value.data[i][field].t = "str"

(***************************************************************************)
(* Claims about StockData.get_field (SpecFilter)                           *)
(***************************************************************************)
FieldReturned == pc = "returned" /\ call.op = "get_field"

\* C25: get_field never raises; a core name gives the core field's value
\* even when raw_data holds another value under that key; any other name
\* gives raw_data[name] when present and None otherwise, also for an empty
\* raw_data.
C25_GetField ==
    FieldReturned =>
        /\ ret.kind = "return"
        /\ call.field_name \in core_fields =>
              ret.value = call.stock[call.field_name]
        /\ (call.field_name \notin core_fields
                /\ call.field_name \in DOMAIN call.stock.raw_data) =>
              ret.value = call.stock.raw_data[call.field_name]
        /\ (call.field_name \notin core_fields
                /\ call.field_name \notin DOMAIN call.stock.raw_data) =>
              ret.value = None

\* A core name answered from the core field although raw_data holds another
\* value under it
C25_Witness ==
    /\ FieldReturned
    /\ call.field_name = "price"
    /\ "price" \in DOMAIN call.stock.raw_data
    /\ call.stock.raw_data["price"] # call.stock.price
    /\ ret = Return(call.stock.price)

(***************************************************************************)
(* Claims about the _context_printed flag (SpecFlag)                       *)
(***************************************************************************)
\* C30: the boolean elephant_bars_filter returns is the one it returns for
\* the same record and context under either value of _context_printed, so
\* it does not depend on earlier calls; the flag is false until the first
\* call, true after every call, and decides only whether the banner is
\* printed.
C30_FlagOnlyPrints ==
    /\ (~context_printed) => ~FilterReturned
    /\ FilterReturned =>
          /\ context_printed
          /\ \A printed \in BOOLEAN :
                /\ elephant_bars_filter_call(printed, call.stock,
                                             call.context).ret = ret.value
                /\ elephant_bars_filter_call(printed, call.stock,
                                             call.context).context_printed
                /\ elephant_bars_filter_call(printed, call.stock,
                                             call.context).banner = ~printed

\* A call made after an earlier one (no banner) that accepts its record
C30_Witness ==
    /\ FilterReturned
    /\ ~call.banner
    /\ ret.value = TRUE

(***************************************************************************)
(* Claims about the override map of run_screening (SpecService)            *)
(***************************************************************************)
\* the value the last pair of the parameter string gives a key
StringValue(pairs, k) ==
    pairs[CHOOSE i \in DOMAIN pairs :
             pairs[i][1] = k /\ \A j \in DOMAIN pairs : pairs[j][1] = k => j <= i][2]

StringKeys(pairs) == {pairs[i][1] : i \in DOMAIN pairs}

ParameterKeys(parameters) ==
    IF parameters = None THEN {} ELSE DOMAIN parameters

\* C24: the map run_screening gives to the override engine holds exactly
\* the keys of the parsed parameter_string and of the parameters map, with
\* the parameters map's value on a key of both (so it is empty when neither
\* is supplied), and the caller's parameters map is as it was.
C24_OverrideMap ==
    (ServiceReturned /\ trace.overrides.kind = "return") =>
        /\ DOMAIN trace.overrides.value
              = StringKeys(call.parameter_string)
                    \cup ParameterKeys(call.parameters)
        /\ \A k \in DOMAIN trace.overrides.value :
              trace.overrides.value[k]
                = IF k \in ParameterKeys(call.parameters)
                  THEN call.parameters[k]
                  ELSE StringValue(call.parameter_string, k)
        /\ trace.caller_parameters = call.parameters

\* Both sources given with a shared key and a key of the string alone
C24_Witness ==
    /\ ServiceReturned
    /\ trace.overrides.kind = "return"
    /\ \E k \in StringKeys(call.parameter_string)
                \cap ParameterKeys(call.parameters) :
          /\ StringValue(call.parameter_string, k) # call.parameters[k]
          /\ trace.overrides.value[k] = call.parameters[k]
    /\ \E k \in StringKeys(call.parameter_string)
                \ ParameterKeys(call.parameters) :
          trace.overrides.value[k] = StringValue(call.parameter_string, k)

(***************************************************************************)
(* Claims about the order of scan and post-filter lookup (SpecService)     *)
(***************************************************************************)
NamedFilterRun == ServiceReturned /\ call.post_filter.tag = "name"

LastScan == trace.scans[Len(trace.scans)]

\* C27: a post-filter name is looked up only after the scan has returned:
\* an unregistered name is raised as not found after the scan ran and
\* posted its request, and when the scan fails its error is raised and no
\* name is looked up.
C27_LookupAfterScan ==
    NamedFilterRun =>
        /\ trace.lookups # <<>> =>
              /\ trace.scans # <<>>
              /\ LastScan.kind = "return"
              /\ LastScan.body
        /\ (trace.scans # <<>> /\ LastScan.kind = "return"
                /\ call.post_filter.name \notin DOMAIN post_filters) =>
              /\ ret.kind = "raise"
              /\ ret.message = "Post-filter not found"
              /\ trace.lookups = <<call.post_filter.name>>
              /\ call.provider \in {"tv", "tv_crypto"} => Len(http) >= 1
        /\ (ret.kind = "raise" /\ ret.message = "Post-filter not found") =>
              trace.scans # <<>> /\ LastScan.kind = "return"
        /\ (trace.scans # <<>> /\ LastScan.kind = "raise") =>
              /\ ret = trace.provider_result
              /\ trace.lookups = <<>>

\* An unregistered name raised after a scan that posted one request
C27_Witness ==
    /\ NamedFilterRun
    /\ call.post_filter.name \notin DOMAIN post_filters
    /\ ret.kind = "raise"
    /\ ret.message = "Post-filter not found"
    /\ Len(http) = 1
    /\ LastScan.kind = "return"

(***************************************************************************)
(* Claims about elephant_bars on the equities adapter (SpecService)        *)
(***************************************************************************)
ColumnSet(columns) == {columns[i] : i \in DOMAIN columns}

ElephantBarsRun ==
    /\ ServiceReturned
    /\ call.provider = "tv"
    /\ call.post_filter = NamedFilter("elephant_bars")
    /\ trace.provider_result.kind = "return"

LoadOps == {"load_from_dict", "load_from_file", "load_from_file_with_metadata"}

RegisterOps ==
    {"register_configs_from_file", "register_configs_from_file_with_metadata"}

\* a loader call has finished on a document it could read
Loaded == pc = "returned" /\ call.op \in LoadOps /\ call.readable

ConfigsRegistered ==
    pc = "returned" /\ call.op \in RegisterOps /\ call.readable

\* the configuration entries of the document of the call
Entries == config_dicts(call.data)

\* the required fields an entry lacks
Lacking(entry) == {"name", "provider", "filters"} \ DOMAIN entry

\* the metadata keys an entry carries, with its values
OwnMetadata(entry) ==
    [k \in {"post_filter", "post_filter_context"} \cap DOMAIN entry |->
        entry[k]]

\* the configurations a load returned
LoadedConfigs ==
    IF call.op = "load_from_file_with_metadata" THEN ret.value[1]
    ELSE ret.value

\* C21: whichever entry point parses a document, single or multi, in which
\* an entry lacks name, provider or filters, the call raises the ValueError
\* that names a missing field, and returns no configurations.
C21_MissingFieldError ==
    (Loaded /\ \E i \in DOMAIN Entries : Lacking(Entries[i]) # {}) =>
        /\ ret.kind = "raise"
        /\ ret.type = "ValueError"
        /\ ret.message = "Missing required field"
        /\ \E i \in DOMAIN Entries : ret.names[1] \in Lacking(Entries[i])

\* C22: load_from_file_with_metadata returns for every entry its own
\* metadata: under the entry's name exactly the metadata keys of that entry
\* if it carries any, and no key for its name if it carries none, also when
\* several entries share a name under different providers.
C22_OwnMetadata ==
    ( /\ Loaded
      /\ call.op = "load_from_file_with_metadata"
      /\ ret.kind = "return" ) =>
        \A i \in DOMAIN Entries :
            IF DOMAIN OwnMetadata(Entries[i]) # {}
            THEN /\ Entries[i].name \in DOMAIN ret.value[2]
                 /\ ret.value[2][Entries[i].name] = OwnMetadata(Entries[i])
            ELSE Entries[i].name \notin DOMAIN ret.value[2]

\* C23: a configuration the loader produces has no post_filter or
\* post_filter_context field, and its parameters hold such a key only if
\* the entry's own parameters held it.
C23_MetadataKeptOut ==
    (Loaded /\ ret.kind = "return") =>
        /\ Len(LoadedConfigs) = Len(Entries)
        /\ \A i \in DOMAIN Entries :
              /\ DOMAIN LoadedConfigs[i]
                    \cap {"post_filter", "post_filter_context"} = {}
              /\ \A k \in {"post_filter", "post_filter_context"} :
                    k \in DOMAIN LoadedConfigs[i].parameters =>
                        /\ "parameters" \in DOMAIN Entries[i]
                        /\ k \in DOMAIN Entries[i].parameters

\* A document with an entry carrying post_filter at top level, which its
\* configuration's parameters lack, and an entry whose own parameters hold
\* post_filter, which its configuration keeps
C23_Witness ==
    /\ Loaded
    /\ call.op = "load_from_file_with_metadata"
    /\ ret.kind = "return"
    /\ \E i \in DOMAIN Entries :
          /\ "post_filter" \in DOMAIN Entries[i]
          /\ "post_filter" \notin DOMAIN LoadedConfigs[i].parameters
    /\ \E i \in DOMAIN Entries :
          /\ "post_filter_context" \in DOMAIN Entries[i]
          /\ "post_filter" \in DOMAIN LoadedConfigs[i].parameters

\* the names a registering call returned
ReturnedNames ==
    IF call.op = "register_configs_from_file_with_metadata"
    THEN ret.value[1] ELSE ret.value

\* the last entry of the document registered under a key
LastEntry(key) ==
    Entries[CHOOSE i \in DOMAIN Entries :
               /\ <<Entries[i].provider, Entries[i].name>> = key
               /\ \A j \in DOMAIN Entries :
                     <<Entries[j].provider, Entries[j].name>> = key => j <= i]

\* C29: both register_configs_from_file calls parse every entry before
\* registering any: if an entry lacks a required field the call fails and
\* the configuration registry is as before; on success each entry is
\* registered under (provider, name) in document order, a later entry
\* replacing an earlier one with the same key, and the names returned are
\* the "provider:name" strings in that order.
C29_RegisterAllOrNothing ==
    ConfigsRegistered =>
        IF \E i \in DOMAIN Entries : Lacking(Entries[i]) # {}
        THEN ret.kind = "raise" /\ screening_configs = call.registry
        ELSE ret.kind = "return" =>
               /\ ReturnedNames
                     = [i \in DOMAIN Entries |->
                          Entries[i].provider \o ":" \o Entries[i].name]
               /\ DOMAIN screening_configs
                     = DOMAIN call.registry
                         \cup {<<Entries[i].provider, Entries[i].name>> :
                                  i \in DOMAIN Entries}
               /\ \A key \in DOMAIN screening_configs :
                     IF \E i \in DOMAIN Entries :
                           <<Entries[i].provider, Entries[i].name>> = key
                     THEN /\ screening_configs[key].provider = key[1]
                          /\ screening_configs[key].name = key[2]
                          /\ screening_configs[key].filters
                                = LastEntry(key).filters
                     ELSE screening_configs[key] = call.registry[key]

\* A document whose first entry is complete and not yet registered and
\* whose second lacks a field: the call failed and registered nothing
C29_Witness ==
    /\ ConfigsRegistered
    /\ Len(Entries) = 2
    /\ Lacking(Entries[1]) = {}
    /\ Lacking(Entries[2]) # {}
    /\ <<Entries[1].provider, Entries[1].name>> \notin DOMAIN call.registry
    /\ ret.kind = "raise"
    /\ screening_configs = call.registry

(***************************************************************************)
(* Claims about concurrent registry lookups (SpecLookup)                   *)
(***************************************************************************)
\* every finished lookup has the answer the registry gives
LookupsAnswered ==
    \A t \in Threads :
        threads[t].pc = "done" =>
            IF threads[t].op = "list_post_filters"
            THEN threads[t].ret = Return(DOMAIN post_filters)
            ELSE IF threads[t].name \in DOMAIN post_filters
            THEN threads[t].ret = Return(post_filters[threads[t].name])
            ELSE /\ threads[t].ret.kind = "raise"
                 /\ threads[t].ret.type = "ValueError"
                 /\ threads[t].ret.names = DOMAIN post_filters

\* a step of a lookup thread leaves the registry as it is
LookupsReadOnly == threads' # threads => post_filters' = post_filters

\* C26: no step of get_post_filter or list_post_filters modifies the
\* registry, and under every interleaving of lookups, none overlapping a
\* registration, each get_post_filter(name) returns the predicate the
\* registration of name bound (or raises listing the registered names) and
\* each list_post_filters returns exactly the registered names.
C26_LookupsRaceFree == [][LookupsReadOnly]_vars /\ []LookupsAnswered

\* Two lookups in progress at once, after a registration: one has returned
\* the registered predicate while the other is between its test and its
\* answer
C26_Witness ==
    /\ \E t \in Threads :
          /\ threads[t].pc = "done"
          /\ threads[t].name = "test_custom"
          /\ threads[t].ret.kind = "return"
          /\ threads[t].ret.value = post_filters["test_custom"]
    /\ \E t \in Threads : threads[t].pc \in {"found", "missing"}

====
